---- MODULE Spec2Model ----
(***************************************************************************)
(* FfmpegManager of magicvid2gif: the acquisition engine that resolves,    *)
(* downloads, extracts, activates and verifies the ffmpeg executable.      *)
(* The model follows the port-based revision of the manager                *)
(* (src/unnamed/part_000, lines 546-1155).                                 *)
(*                                                                         *)
(* JavaScript runs one flow of control at a time; a call of an async       *)
(* method runs synchronously up to its first await on real I/O.  Each      *)
(* action below is one such synchronous segment.  Several callers may have *)
(* a call of installFfmpeg pending at the same time, interleaved at the    *)
(* awaits.                                                                 *)
(***************************************************************************)
EXTENDS Integers, Sequences, FiniteSets, TLC

\* ------------------------------------------------------------------ bounds
NumCallers == 2
MaxRedirects == 1

Callers == 1..NumCallers

\* ------------------------------------------------- strings the code inspects
\* os.arch() values and archive file names are sequences of characters, so
\* that startsWith / endsWith are computed as String.prototype computes them.
ArchX64 == <<"x", "6", "4">>
ArchIa32 == <<"i", "a", "3", "2">>
ArchArm64 == <<"a", "r", "m", "6", "4">>
ArchArm == <<"a", "r", "m">>
ArchRiscv64 == <<"r", "i", "s", "c", "v", "6", "4">>
PrefixArm == <<"a", "r", "m">>

FileZip == <<"f", "f", "m", "p", "e", "g", ".", "z", "i", "p">>
FileTarXz == <<"f", "f", "m", "p", "e", "g", ".", "t", "a", "r", ".", "x", "z">>

Platforms == {"win32", "darwin", "linux", "freebsd"}
Archs == {ArchX64, ArchIa32, ArchArm64, ArchArm, ArchRiscv64}

startsWith(s, prefix) ==
  /\ Len(s) >= Len(prefix)
  /\ SubSeq(s, 1, Len(prefix)) = prefix

\* ----------------------------------------------------------------- catalog
downloadUrls ==
  [p \in {"win32", "darwin", "linux"} |->
     CASE p = "win32" ->
            (ArchX64 :> [url |-> "https://github.com/BtbN/FFmpeg-Builds/releases/download/latest/ffmpeg-master-latest-win64-gpl.zip",
                         filename |-> FileZip,
                         extractPath |-> "ffmpeg-master-latest-win64-gpl/bin",
                         executableName |-> "ffmpeg.exe"])
            @@
            (ArchIa32 :> [url |-> "https://github.com/BtbN/FFmpeg-Builds/releases/download/latest/ffmpeg-master-latest-win32-gpl.zip",
                          filename |-> FileZip,
                          extractPath |-> "ffmpeg-master-latest-win32-gpl/bin",
                          executableName |-> "ffmpeg.exe"])
       [] p = "darwin" ->
            (ArchX64 :> [url |-> "https://evermeet.cx/ffmpeg/getrelease/ffmpeg/zip",
                         filename |-> FileZip,
                         extractPath |-> "",
                         executableName |-> "ffmpeg"])
            @@
            (ArchArm64 :> [url |-> "https://evermeet.cx/ffmpeg/getrelease/ffmpeg/zip",
                           filename |-> FileZip,
                           extractPath |-> "",
                           executableName |-> "ffmpeg"])
       [] p = "linux" ->
            (ArchX64 :> [url |-> "https://johnvansickle.com/ffmpeg/builds/ffmpeg-git-amd64-static.tar.xz",
                         filename |-> FileTarXz,
                         extractPath |-> "",
                         executableName |-> "ffmpeg"])
            @@
            (ArchArm64 :> [url |-> "https://johnvansickle.com/ffmpeg/builds/ffmpeg-git-arm64-static.tar.xz",
                           filename |-> FileTarXz,
                           extractPath |-> "",
                           executableName |-> "ffmpeg"])]

\* The (platform, architecture) pairs that have an entry of their own.
InCatalog(p, a) == p \in DOMAIN downloadUrls /\ a \in DOMAIN downloadUrls[p]

\* this.downloadUrls[platform]?.[arch]: <<entry>>, or <<>> for undefined.
lookup(p, a) == IF InCatalog(p, a) THEN <<downloadUrls[p][a]>> ELSE <<>>

\* resolveBinary without the arm fallback: the exact entry or nothing.
resolveBinaryExactOnly(p, a) == lookup(p, a)

\* resolveBinary with the fallback applied to every architecture.
resolveBinaryAnyArch(p, a) ==
  IF lookup(p, a) # <<>> THEN lookup(p, a) ELSE lookup(p, ArchArm64)

\* resolveBinary: <<binaryInfo>>, or <<>> for null (with ui.error shown).
resolveBinary(p, a) ==
  LET exact == lookup(p, a)
      binaryInfo == IF exact = <<>> /\ startsWith(a, PrefixArm)
                    THEN lookup(p, ArchArm64)
                    ELSE exact
  IN binaryInfo

\* isDarwinArm with the architecture test left out.
isDarwinArmAnyArch(p, a) == p = "darwin"

\* computePaths: platform === 'darwin' && arch === 'arm64'.
isDarwinArm(p, a) == p = "darwin" /\ a = ArchArm64

\* getExecutableName / binaryInfo.executableName agree on every catalog entry.
getExecutableName(p) == IF p = "win32" THEN "ffmpeg.exe" ELSE "ffmpeg"

\* ------------------------------------------------------------------- state
VARIABLES
  platform,       \* os.platform()
  arch,           \* os.arch()
  ffmpegPath,     \* this.ffmpegPath: "null" or a path
  isDownloading,  \* this.isDownloading
  dirs,           \* globalStorage and globalStorage/ffmpeg exist
  archive,        \* globalStorage/<binaryInfo.filename>
  osxArchive,     \* globalStorage/ffmpeg_osx_arm.zip
  execFile,       \* contents of globalStorage/ffmpeg/<executableName>
  execBit,        \* its executable permission bits
  nestedFile,     \* contents of globalStorage/ffmpeg/<extractPath>/<executableName>
  brewAvail,      \* `brew --version` succeeds
  brewHasFfmpeg,  \* `brew list ffmpeg` succeeds
  pc,             \* per caller: position in its pending installFfmpeg call
  errors,         \* per caller: ui.error notifications issued by the pending call
  target,         \* per caller: which archive the pending download writes
  url,            \* per caller: the URL of the pending request
  redirects,      \* per caller: redirects followed by the pending download
  last,           \* the most recent return since the flag was last set
  steps,          \* the steps completed, in order, by the attempt that last set the flag
  prior,          \* the working, cached executable that attempt found, or "none"
  pgPhase,        \* progress study: where the observed task is
  dlTotal,        \* downloadWithProgress: total (content-length)
  dlDownloaded,   \* downloadWithProgress: downloaded
  dlLastPercent,  \* downloadWithProgress: lastPercent
  uiLastPercent,  \* VsCodeUiPort.withProgress: lastPercent, the progress shown
  updArg,         \* the value most recently passed to update
  updCalls,       \* how many times update has been called
  uiIncrement,    \* the increment most recently passed to progress.report
  uiShown,        \* the sum of the increments passed to progress.report
  ePc,            \* earlier revision: position of the installFfmpeg call
  token,          \* earlier revision: token.isCancellationRequested
  eListeners,     \* listeners registered with token.onCancellationRequested
  eDest,          \* the archive file at dest
  eStreams,       \* write streams open on dest
  eRequest,       \* the newest https request
  eRedirects,     \* redirects followed
  eExec,          \* contents of the executable in the install directory
  eResult,        \* what installFfmpeg returned
  eError,         \* the message shown with showErrorMessage
  lPc,            \* locator: position of the getFfmpegPath / getVersion call
  lOp,            \* which of the two was called
  lStorage,       \* workspace.storagePath() is defined
  lFound,         \* what getFfmpegPath returned
  lResult,        \* what getVersion returned
  lProbes,        \* the version probes the call has run, in order
  xPc,            \* extractArchive study: "off", "ready" or "done"
  xArchive,       \* its argument archive (the file name)
  xPlatform,      \* os.platform() at the call
  xSub,           \* its argument extractSubPath
  xCommand,       \* the command it ran
  xStrip,         \* the command had --strip-components=1
  xKind,          \* how the command ended
  xThrown,        \* the message of the Error it threw, or "none"
  xCopied,        \* the binary of the subfolder was copied
  gifsiclePath,   \* OptimizationService: this.gifsiclePath, "null" or a command
  oOp,            \* the method of the service called last
  oOk,            \* what checkGifsicle returned
  oProbes,        \* `gifsicle --version` probes run by that call
  oRuns,          \* gifsicle optimisation runs started by that call
  oReturn,        \* the path optimize returned
  oThrown,        \* the message of the Error optimize threw, or "none"
  oInput,         \* the inputPath argument of optimize
  oWritten,       \* the file its gifsicle run wrote
  oNow,           \* Date.now()
  oFiles,         \* the GIF files: contents by path
  cPc,            \* executeConversion: where the call is
  cToken,         \* token.isCancellationRequested
  cListener,      \* the listener that calls converter.cancel() is registered
  cCommand,       \* VideoConverter.currentCommand: "none", or its process
  cReady,         \* VideoConverter.ffmpegPath is set
  cLevel,         \* options.optimizationLevel
  cError,         \* the message of the Error executeConversion threw
  cDisplayed,     \* displayedPercent, in tenths of a percent
  cIncrement,     \* the increment most recently reported, in tenths
  cShown,         \* the sum of the increments reported, in tenths
  cReported,      \* this step called updateProgress and reported an increment
  cOptimized      \* optimizer.optimize has been called

envVars == <<platform, arch>>
mgrVars == <<ffmpegPath, isDownloading>>
fsVars == <<dirs, archive, osxArchive, execFile, execBit, nestedFile>>
brewVars == <<brewAvail, brewHasFfmpeg>>
dlVars == <<target, url, redirects>>
callVars == <<pc, errors, dlVars, last>>
obsVars == <<steps, prior>>
installVars == <<envVars, mgrVars, fsVars, brewVars, callVars, obsVars>>
progVars == <<pgPhase, dlTotal, dlDownloaded, dlLastPercent, uiLastPercent,
              updArg, updCalls, uiIncrement, uiShown>>
cancelVars == <<ePc, token, eListeners, eDest, eStreams, eRequest, eRedirects,
                eExec, eResult, eError>>
locVars == <<lPc, lOp, lStorage, lFound, lResult, lProbes>>
extVars == <<xPc, xArchive, xPlatform, xSub, xCommand, xStrip, xKind, xThrown,
             xCopied>>
optVars == <<gifsiclePath, oOp, oOk, oProbes, oRuns, oReturn, oThrown, oInput,
             oWritten, oNow, oFiles>>
convVars == <<cPc, cToken, cListener, cCommand, cReady, cLevel, cError,
              cDisplayed, cIncrement, cShown, cReported, cOptimized>>
mediaVars == <<optVars, convVars>>
auxVars == <<progVars, cancelVars, locVars, extVars, mediaVars>>
vars == <<installVars, auxVars>>

NullPath == "null"
BundledPath == "globalStorage/ffmpeg/executable"
WhichPath == "/opt/homebrew/bin/ffmpeg"
OsxUrl == "https://www.osxexperts.net/ffmpeg80arm.zip"
RedirectUrl == "response.headers.location"

\* Contents of an executable file: the build an earlier install left ("old"),
\* the build the servers offer now ("new"), or a file that does not run.
\* An archive holds, at the place the descriptor names, the new build, a
\* binary that does not run, or no binary at all.
Working == {"old", "new"}
Payloads == {"new", "broken", "nobin"}

\* execFileAsync(path, ['-version']) succeeds.
Runs(content, bit) == content \in Working /\ (platform = "win32" \/ bit)

InFlight(c) == pc[c] # "idle"

binaryInfo == resolveBinary(platform, arch)[1]

\* The progress study is not running.
ProgIdle ==
  /\ pgPhase = "off"
  /\ dlTotal = 0
  /\ dlDownloaded = 0
  /\ dlLastPercent = 0
  /\ uiLastPercent = 0
  /\ updArg = 0
  /\ updCalls = 0
  /\ uiIncrement = 0
  /\ uiShown = 0

\* The study of the earlier revision is not running.
CancelIdle ==
  /\ ePc = "off"
  /\ token = FALSE
  /\ eListeners = 0
  /\ eDest = "absent"
  /\ eStreams = 0
  /\ eRequest = "none"
  /\ eRedirects = 0
  /\ eExec = "absent"
  /\ eResult = "none"
  /\ eError = "none"

\* The study of extractArchive is not running.
ExtIdle ==
  /\ xPc = "off"
  /\ xArchive = <<>>
  /\ xPlatform = "none"
  /\ xSub = ""
  /\ xCommand = "none"
  /\ xStrip = FALSE
  /\ xKind = "none"
  /\ xThrown = "none"
  /\ xCopied = FALSE

\* No getFfmpegPath or getVersion call is pending.
LocIdle ==
  /\ lPc = "idle"
  /\ lOp = "none"
  /\ lStorage = TRUE
  /\ lFound = "none"
  /\ lResult = "none"
  /\ lProbes = <<>>

\* The paths of the GIF files: the output of a conversion, and the files
\* optimize writes, path.join(os.tmpdir(), "optimized_" + Date.now() + ".gif").
MaxClock == 3
OutPath == [dir |-> "videos", name |-> "clip_magic", stamp |-> 0]
TempPath(now) == [dir |-> "tmp", name |-> "optimized", stamp |-> now]
NoPath == [dir |-> "none", name |-> "none", stamp |-> 0]
Paths == {OutPath} \cup {TempPath(t) : t \in 1..(MaxClock + 1)}

\* The optimisation service as constructed, no call made.
OptIdle ==
  /\ gifsiclePath = NullPath
  /\ oOp = "none"
  /\ oOk = "none"
  /\ oProbes = 0
  /\ oRuns = 0
  /\ oReturn = NoPath
  /\ oThrown = "none"
  /\ oInput = NoPath
  /\ oWritten = NoPath
  /\ oNow = 0
  /\ oFiles = [q \in Paths |-> "absent"]

\* No conversion is running.
ConvIdle ==
  /\ cPc = "off"
  /\ cToken = FALSE
  /\ cListener = FALSE
  /\ cCommand = "none"
  /\ cReady = FALSE
  /\ cLevel = "fast"
  /\ cError = "none"
  /\ cDisplayed = 0
  /\ cIncrement = 0
  /\ cShown = 0
  /\ cReported = FALSE
  /\ cOptimized = FALSE

MediaIdle == OptIdle /\ ConvIdle

\* No call has returned since the current observation began.
NoReturn == [ok |-> FALSE, at |-> "none", errors |-> 0, message |-> "none"]

\* ---------------------------------------------------------------- initial
\* A fresh manager (ffmpegPath null, isDownloading false) on some host: any
\* platform and architecture, the storage directory missing or present, an
\* earlier install present or not, Homebrew present or not on Apple Silicon.
Init ==
  /\ platform \in Platforms
  /\ arch \in Archs
  /\ ffmpegPath = NullPath
  /\ isDownloading = FALSE
  /\ dirs \in BOOLEAN
  /\ archive = "absent"
  /\ osxArchive = "absent"
  /\ execFile \in (IF dirs THEN {"absent", "old", "broken"} ELSE {"absent"})
  /\ execBit = (execFile # "absent")
  /\ nestedFile = "absent"
  /\ brewAvail \in (IF isDarwinArm(platform, arch) THEN BOOLEAN ELSE {FALSE})
  /\ brewHasFfmpeg \in (IF brewAvail THEN BOOLEAN ELSE {FALSE})
  /\ pc = [c \in Callers |-> "idle"]
  /\ errors = [c \in Callers |-> 0]
  /\ target = [c \in Callers |-> "none"]
  /\ url = [c \in Callers |-> "none"]
  /\ redirects = [c \in Callers |-> 0]
  /\ last = NoReturn
  /\ steps = <<>>
  /\ prior = "none"
  /\ ProgIdle
  /\ CancelIdle
  /\ LocIdle
  /\ ExtIdle
  /\ MediaIdle

\* --------------------------------------------------------------- helpers
\* A call returns: `last` records the value, the return statement, the
\* ui.error notifications the call issued and the newest of their messages;
\* the caller is free again and its locals are gone.
Leave(c, ok, at, nerr, msg) ==
  /\ pc' = [pc EXCEPT ![c] = "idle"]
  /\ last' = [ok |-> ok, at |-> at, errors |-> errors[c] + nerr,
              message |-> msg]
  /\ errors' = [errors EXCEPT ![c] = 0]
  /\ target' = [target EXCEPT ![c] = "none"]
  /\ url' = [url EXCEPT ![c] = "none"]
  /\ redirects' = [redirects EXCEPT ![c] = 0]

Goto(c, p) ==
  /\ pc' = [pc EXCEPT ![c] = p]
  /\ UNCHANGED last

Did(s) == steps' = Append(steps, s)

\* catch without the finally block: the flag stays set.
installFfmpegCatchNoFinally(c, msg) ==
  /\ Leave(c, FALSE, "catch", 1, msg)
  /\ UNCHANGED <<ffmpegPath, isDownloading>>

\* catch (ui.error with the message of the exception, return false) followed
\* by finally (flag cleared).
installFfmpegCatch(c, msg) ==
  /\ Leave(c, FALSE, "catch", 1, msg)
  /\ isDownloading' = FALSE
  /\ UNCHANGED ffmpegPath

\* A successful end that leaves this.ffmpegPath as it was.
installFfmpegSucceedNoRecord(c, p) ==
  /\ Leave(c, TRUE, "installed", 0, "none")
  /\ isDownloading' = FALSE
  /\ UNCHANGED ffmpegPath

\* The task has recorded the path p; withProgress resolves, ui.info, return
\* true, finally.
installFfmpegSucceed(c, p) ==
  /\ Leave(c, TRUE, "installed", 0, "none")
  /\ ffmpegPath' = p
  /\ isDownloading' = FALSE

\* The entry of installFfmpeg with the busy test left out.
installEntryNoBusyCheck(downloading, info, f, exists) ==
  IF info = <<>> THEN "unsupported"
  ELSE IF ~f /\ exists THEN "already"
  ELSE "start"

\* The entry of installFfmpeg with the existence test left out.
installEntryAlwaysInstalls(downloading, info, f, exists) ==
  IF downloading THEN "busy"
  ELSE IF info = <<>> THEN "unsupported"
  ELSE "start"

\* The entry of installFfmpeg, up to this.isDownloading = true: which of the
\* three early returns is taken, if any.
installEntry(downloading, info, f, exists) ==
  IF downloading THEN "busy"
  ELSE IF info = <<>> THEN "unsupported"
  ELSE IF ~f /\ exists THEN "already"
  ELSE "start"

existingBinaryExists == execFile # "absent"

Entry(f) ==
  installEntry(isDownloading, resolveBinary(platform, arch), f,
               existingBinaryExists)

\* ------------------------------------------------------- installFfmpeg entry
\* 'FFmpeg download already in progress...', return false.
CallBusy(c, f) ==
  /\ pc[c] = "idle"
  /\ Entry(f) = "busy"
  /\ Leave(c, FALSE, "busy", 0, "none")
  /\ UNCHANGED <<envVars, mgrVars, fsVars, brewVars, obsVars>>
  /\ UNCHANGED auxVars

\* resolveBinary returned null after ui.error('Unsupported platform ...').
CallUnsupported(c, f) ==
  /\ pc[c] = "idle"
  /\ Entry(f) = "unsupported"
  /\ Leave(c, FALSE, "unsupported", 1, "Unsupported platform")
  /\ UNCHANGED <<envVars, mgrVars, fsVars, brewVars, obsVars>>
  /\ UNCHANGED auxVars

\* 'FFmpeg is already installed.', return true.
CallAlready(c, f) ==
  /\ pc[c] = "idle"
  /\ Entry(f) = "already"
  /\ Leave(c, TRUE, "already", 0, "none")
  /\ UNCHANGED <<envVars, mgrVars, fsVars, brewVars, obsVars>>
  /\ UNCHANGED auxVars

\* this.isDownloading = true; ui.withProgress is called.  The observations
\* (`last`, `steps`, `prior`) start afresh with the attempt.
CallStart(c, f) ==
  /\ pc[c] = "idle"
  /\ Entry(f) = "start"
  /\ isDownloading' = TRUE
  /\ pc' = [pc EXCEPT ![c] = "progress"]
  /\ last' = NoReturn
  /\ steps' = <<>>
  /\ prior' = (IF Runs(execFile, execBit) /\ ffmpegPath = BundledPath
               THEN execFile ELSE "none")
  /\ UNCHANGED <<envVars, ffmpegPath, fsVars, brewVars, errors, dlVars>>
  /\ UNCHANGED auxVars

\* ------------------------------------------------------ performInstallSteps
\* The direct path with permission setting moved before extraction.
nextStepChmodFirst(s, p) ==
  CASE s = "download" -> IF p = "win32" THEN "extract" ELSE "chmod"
    [] s = "chmod" -> "extract"
    [] s = "extract" -> "verify"

\* The order of the awaited steps of the direct path: downloadArchive,
\* extractAndCleanup, then makeExecutableAndVerify, whose chmodSync is
\* skipped on win32.
nextStep(s, p) ==
  CASE s = "download" -> "extract"
    [] s = "extract" -> IF p = "win32" THEN "verify" ELSE "chmod"
    [] s = "chmod" -> "verify"

\* downloadWithProgress is called for a destination and a URL.
StartDownload(c, t, u) ==
  /\ Goto(c, "dl_req")
  /\ target' = [target EXCEPT ![c] = t]
  /\ url' = [url EXCEPT ![c] = u]
  /\ redirects' = [redirects EXCEPT ![c] = 0]

\* The alternate path leaves with false (or its exception was caught by
\* downloadOsxExpertsFallback): performInstallSteps goes on to downloadArchive
\* with the catalog descriptor.
AltReturnsFalse(c) ==
  /\ StartDownload(c, "catalog", binaryInfo.url)
  /\ Did("altFalse")

\* installFfmpegDarwinArm reaches downloadOsxExpertsFallback.
AltFallback(c) ==
  /\ StartDownload(c, "osx", OsxUrl)
  /\ UNCHANGED steps

\* ui.withProgress rejects without completing the task.
WithProgressRejects(c) ==
  /\ pc[c] = "progress"
  /\ installFfmpegCatch(c, "withProgress")
  /\ UNCHANGED <<envVars, fsVars, brewVars, obsVars>>
  /\ UNCHANGED auxVars

\* ensureDirectories throws (mkdirSync fails).
EnsureDirectoriesFails(c) ==
  /\ pc[c] = "progress"
  /\ ~dirs
  /\ installFfmpegCatch(c, "mkdir")
  /\ UNCHANGED <<envVars, fsVars, brewVars, obsVars>>
  /\ UNCHANGED auxVars

\* The task starts: ensureDirectories, then the alternate path on Apple
\* Silicon, the direct path elsewhere.
StartTask(c) ==
  /\ pc[c] = "progress"
  /\ dirs' = TRUE
  /\ IF isDarwinArm(platform, arch)
     THEN /\ Goto(c, "alt_probe")
          /\ Did("alt")
          /\ UNCHANGED dlVars
     ELSE /\ StartDownload(c, "catalog", binaryInfo.url)
          /\ UNCHANGED steps
  /\ UNCHANGED <<envVars, prior, mgrVars, archive, osxArchive, execFile,
                 execBit, nestedFile, brewVars, errors>>
  /\ UNCHANGED auxVars

\* ---------------------------------------------------- installFfmpegDarwinArm
\* isCommandAvailable('brew')
BrewProbe(c) ==
  /\ pc[c] = "alt_probe"
  /\ Goto(c, IF brewAvail THEN "brew_list" ELSE "prompt_brew")
  /\ UNCHANGED <<envVars, mgrVars, fsVars, brewVars, errors, dlVars, obsVars>>
  /\ UNCHANGED auxVars

\* tryUseOrInstallBrew that returns true without recording the path.
BrewListHitKeepsPath(c, p) ==
  /\ pc[c] = "brew_list"
  /\ brewHasFfmpeg
  /\ installFfmpegSucceed(c, ffmpegPath)
  /\ Did("altTrue")
  /\ UNCHANGED <<envVars, prior, fsVars, brewVars>>
  /\ UNCHANGED auxVars

\* tryUseOrInstallBrew: `brew list ffmpeg` and `which ffmpeg` succeed; the
\* path is adopted (stdout.trim() || 'ffmpeg') and the attempt ends.
BrewListHit(c, p) ==
  /\ pc[c] = "brew_list"
  /\ brewHasFfmpeg
  /\ installFfmpegSucceed(c, p)
  /\ Did("altTrue")
  /\ UNCHANGED <<envVars, prior, fsVars, brewVars>>
  /\ UNCHANGED auxVars

\* tryUseOrInstallBrew: one of the two commands fails; the user is asked.
BrewListMiss(c) ==
  /\ pc[c] = "brew_list"
  /\ Goto(c, "prompt_ffmpeg")
  /\ UNCHANGED <<envVars, mgrVars, fsVars, brewVars, errors, dlVars, obsVars>>
  /\ UNCHANGED auxVars

\* 'Homebrew detected. Install FFmpeg via Homebrew (recommended)?'
PromptFfmpeg(c, choice) ==
  /\ pc[c] = "prompt_ffmpeg"
  /\ IF choice = "Install now"
     THEN /\ Goto(c, "brew_install")
          /\ UNCHANGED <<dlVars, steps>>
     ELSE AltFallback(c)
  /\ UNCHANGED <<envVars, prior, mgrVars, fsVars, brewVars, errors>>
  /\ UNCHANGED auxVars

\* `brew install ffmpeg` then `which ffmpeg` (from tryUseOrInstallBrew, or
\* from installBrewAndFfmpeg after the script): adopt the path, or ui.error
\* and fall back.
BrewInstall(c, installed, which) ==
  /\ pc[c] = "brew_install"
  /\ brewHasFfmpeg' = (brewHasFfmpeg \/ installed)
  /\ IF installed /\ which # NullPath
     THEN /\ installFfmpegSucceed(c, which)
          /\ Did("altTrue")
     ELSE /\ AltFallback(c)
          /\ errors' = [errors EXCEPT ![c] = @ + 1]
          /\ UNCHANGED mgrVars
  /\ UNCHANGED <<envVars, prior, fsVars, brewAvail>>
  /\ UNCHANGED auxVars

\* promptInstallBrewOrFallback whose 'cancel' goes on to the fallback.
PromptBrewCancelFallsBack(c, choice) ==
  /\ pc[c] = "prompt_brew"
  /\ IF choice = "Install Homebrew"
     THEN /\ Goto(c, "consent")
          /\ UNCHANGED <<dlVars, steps>>
     ELSE AltFallback(c)
  /\ UNCHANGED <<envVars, prior, mgrVars, fsVars, brewVars, errors>>
  /\ UNCHANGED auxVars

\* 'Homebrew not detected. Install Homebrew (recommended)?'
PromptBrew(c, choice) ==
  /\ pc[c] = "prompt_brew"
  /\ CASE choice = "Install Homebrew" ->
            /\ Goto(c, "consent")
            /\ UNCHANGED <<dlVars, steps>>
       [] choice = "Download Apple Silicon binary" -> AltFallback(c)
       [] OTHER -> AltReturnsFalse(c)
  /\ UNCHANGED <<envVars, prior, mgrVars, fsVars, brewVars, errors>>
  /\ UNCHANGED auxVars

\* installBrewAndFfmpeg that runs the script whatever the answer is.
ConsentIgnored(c, choice) ==
  /\ pc[c] = "consent"
  /\ Goto(c, "brew_script")
  /\ UNCHANGED <<dlVars, steps>>
  /\ UNCHANGED <<envVars, prior, mgrVars, fsVars, brewVars, errors>>
  /\ UNCHANGED auxVars

\* installBrewAndFfmpeg: 'Installing Homebrew will run a remote script ...'
Consent(c, choice) ==
  /\ pc[c] = "consent"
  /\ IF choice = "Install"
     THEN /\ Goto(c, "brew_script")
          /\ UNCHANGED <<dlVars, steps>>
     ELSE AltFallback(c)
  /\ UNCHANGED <<envVars, prior, mgrVars, fsVars, brewVars, errors>>
  /\ UNCHANGED auxVars

\* installBrewAndFfmpeg: the remote installation script runs.
BrewScript(c, ok) ==
  /\ pc[c] = "brew_script"
  /\ IF ok
     THEN /\ brewAvail' = TRUE
          /\ Goto(c, "brew_install")
          /\ UNCHANGED <<errors, dlVars, steps>>
     ELSE /\ AltFallback(c)
          /\ errors' = [errors EXCEPT ![c] = @ + 1]
          /\ UNCHANGED brewAvail
  /\ UNCHANGED <<envVars, prior, mgrVars, fsVars, brewHasFfmpeg>>
  /\ UNCHANGED auxVars

\* A prompt of the alternate path outside downloadOsxExpertsFallback rejects:
\* nothing catches it before installFfmpeg's own catch.
PromptRejects(c) ==
  /\ pc[c] \in {"prompt_ffmpeg", "prompt_brew", "consent"}
  /\ installFfmpegCatch(c, "prompt")
  /\ UNCHANGED <<envVars, fsVars, brewVars, obsVars>>
  /\ UNCHANGED auxVars


\* ------------------------------------------------------ downloadWithProgress
\* The file a download writes: the catalog archive or the osxexperts one.
SetArchive(c, v) ==
  IF target[c] = "osx"
  THEN osxArchive' = v /\ UNCHANGED archive
  ELSE archive' = v /\ UNCHANGED osxArchive

\* The download promise rejects.  Inside downloadOsxExpertsFallback the
\* rejection is caught and the alternate path returns false; on the direct
\* path it reaches installFfmpeg's catch.
DownloadRejected(c, msg) ==
  IF target[c] = "osx"
  THEN /\ AltReturnsFalse(c)
       /\ UNCHANGED <<mgrVars, errors>>
  ELSE /\ installFfmpegCatch(c, msg)
       /\ UNCHANGED steps

\* The promise executor: fs.createWriteStream(dest) creates or truncates the
\* destination, https.get sends the request.
DlRequest(c) ==
  /\ pc[c] = "dl_req"
  /\ SetArchive(c, "partial")
  /\ Goto(c, "dl_wait")
  /\ UNCHANGED <<envVars, mgrVars, dirs, execFile, execBit, nestedFile,
                 brewVars, errors, dlVars, obsVars>>
  /\ UNCHANGED auxVars

\* request.on('error', reject)
DlConnError(c) ==
  /\ pc[c] = "dl_wait"
  /\ DownloadRejected(c, "request error")
  /\ UNCHANGED <<envVars, prior, fsVars, brewVars>>
  /\ UNCHANGED auxVars

\* A redirect answered with a rejection instead of a follow-up request.
DlRedirectRejects(c) ==
  /\ pc[c] = "dl_wait"
  /\ redirects[c] < MaxRedirects
  /\ DownloadRejected(c, "HTTP 302")
  /\ UNCHANGED <<envVars, prior, fsVars, brewVars>>
  /\ UNCHANGED auxVars

\* 301 or 302 with a Location header: the download is issued again for the
\* new location, with the same destination.
DlRedirect(c) ==
  /\ pc[c] = "dl_wait"
  /\ redirects[c] < MaxRedirects
  /\ redirects' = [redirects EXCEPT ![c] = @ + 1]
  /\ url' = [url EXCEPT ![c] = RedirectUrl]
  /\ SetArchive(c, "partial")
  /\ UNCHANGED <<envVars, mgrVars, dirs, execFile, execBit, nestedFile,
                 brewVars, pc, errors, target, last, obsVars>>
  /\ UNCHANGED auxVars

\* Status codes of responses that are neither 200 nor a redirect with a
\* Location header (302 stands for a redirect without one).
StatusCodes == {302, 404, 503}

\* new Error(`HTTP ${response.statusCode}`).message
httpError(code) ==
  CASE code = 302 -> "HTTP 302"
    [] code = 404 -> "HTTP 404"
    [] code = 503 -> "HTTP 503"

HttpMessages == {httpError(code) : code \in StatusCodes}

\* A response other than 200 treated like 200: the body is piped to the file.
DlHttpErrorStreams(c, code) ==
  /\ pc[c] = "dl_wait"
  /\ Goto(c, "dl_stream")
  /\ UNCHANGED <<envVars, mgrVars, fsVars, brewVars, errors, dlVars, obsVars>>
  /\ UNCHANGED auxVars

\* Any other status than 200 (a redirect without Location included):
\* reject(new Error(`HTTP ${statusCode}`)).
DlHttpError(c, code) ==
  /\ pc[c] = "dl_wait"
  /\ DownloadRejected(c, httpError(code))
  /\ UNCHANGED <<envVars, prior, fsVars, brewVars>>
  /\ UNCHANGED auxVars

\* Status 200: the body is piped to the file.
DlOk(c) ==
  /\ pc[c] = "dl_wait"
  /\ Goto(c, "dl_stream")
  /\ UNCHANGED <<envVars, mgrVars, fsVars, brewVars, errors, dlVars, obsVars>>
  /\ UNCHANGED auxVars

\* file 'finish': the promise resolves, the archive is complete.
DlFinish(c) ==
  /\ pc[c] = "dl_stream"
  /\ SetArchive(c, "complete")
  /\ IF target[c] = "osx"
     THEN /\ Goto(c, "osx_verify")
          /\ UNCHANGED steps
     ELSE /\ Goto(c, nextStep("download", platform))
          /\ Did("download")
  /\ UNCHANGED <<envVars, prior, mgrVars, dirs, execFile, execBit,
                 nestedFile, brewVars, errors, dlVars>>
  /\ UNCHANGED auxVars

\* The response stream fails in mid-transfer: no handler is registered for
\* it, 'finish' never fires and the promise is never settled.
DlStall(c) ==
  /\ pc[c] = "dl_stream"
  /\ Goto(c, "stalled")
  /\ UNCHANGED <<envVars, mgrVars, fsVars, brewVars, errors, dlVars, obsVars>>
  /\ UNCHANGED auxVars

\* ------------------------------------------------------------ extractArchive
endsWith(s, suffix) ==
  /\ Len(s) >= Len(suffix)
  /\ SubSeq(s, Len(s) - Len(suffix) + 1, Len(s)) = suffix

SuffixZip == <<".", "z", "i", "p">>
SuffixTarXz == <<".", "t", "a", "r", ".", "x", "z">>

\* The dispatch on the platform alone.
extractToolByPlatform(filename, p) ==
  IF p = "win32" THEN "powershell" ELSE IF p = "darwin" THEN "unzip" ELSE "tar"

\* The command extractArchive runs for an archive name on a platform.
extractTool(filename, p) ==
  IF endsWith(filename, SuffixZip)
  THEN IF p = "win32" THEN "powershell" ELSE "unzip"
  ELSE IF endsWith(filename, SuffixTarXz) THEN "tar" ELSE "none"

\* A successful extractArchive of an archive holding `payload` with
\* extractSubPath `sub`: the tool writes the binary where the archive has
\* it, with the mode the archive stores; a binary in a subfolder is then
\* copied to the install directory if it exists.
\* An extraction that never copies the nested executable to its final place.
ExtractIntoNoCopy(payload, sub) ==
  IF sub = ""
  THEN /\ UNCHANGED nestedFile
       /\ IF payload = "nobin"
          THEN UNCHANGED <<execFile, execBit>>
          ELSE /\ execFile' = payload
               /\ execBit' \in BOOLEAN
  ELSE /\ nestedFile' = (IF payload = "nobin" THEN nestedFile ELSE payload)
       /\ UNCHANGED <<execFile, execBit>>

ExtractInto(payload, sub) ==
  IF sub = ""
  THEN /\ UNCHANGED nestedFile
       /\ IF payload = "nobin"
          THEN UNCHANGED <<execFile, execBit>>
          ELSE /\ execFile' = payload
               /\ execBit' \in BOOLEAN
  ELSE /\ nestedFile' = (IF payload = "nobin" THEN nestedFile ELSE payload)
       /\ IF nestedFile' = "absent"
          THEN UNCHANGED <<execFile, execBit>>
          ELSE /\ execFile' = nestedFile'
               /\ execBit' = TRUE

\* A failing extraction that always leaves an incomplete file behind.
ExtractFailsLeavesFile(kind, sub) ==
  IF sub = ""
  THEN execFile' = "broken" /\ UNCHANGED <<execBit, nestedFile>>
  ELSE nestedFile' = "broken" /\ UNCHANGED <<execFile, execBit>>

\* A failing extraction command: the tool is missing (nothing is written) or
\* it stops part-way through the archive (the file it was writing is left
\* incomplete).
ExtractFails(kind, sub) ==
  IF kind = "toolMissing"
  THEN UNCHANGED <<execFile, execBit, nestedFile>>
  ELSE IF sub = ""
       THEN execFile' = "broken" /\ UNCHANGED <<execBit, nestedFile>>
       ELSE nestedFile' = "broken" /\ UNCHANGED <<execFile, execBit>>

ExtractOutcomes == Payloads \cup {"toolMissing", "corrupt"}

MsgPowerShell == "Extraction failed: PowerShell Expand-Archive failed. Ensure PowerShell is available and try again."
MsgUnzip == "Extraction failed: unzip is not available or failed. Install unzip and try again."
MsgTar == "Extraction failed: tar is not available or the archive is corrupted. Install tar and try again."

\* err.message of the rejected execAsync.
underlying(kind) ==
  IF kind = "toolMissing" THEN "command not found" ELSE "exit code 1"

\* The Error extractArchive throws when its command fails: the text for the
\* tool, then the underlying message in parentheses.
extractError(tool, kind) ==
  [text |-> CASE tool = "powershell" -> MsgPowerShell
              [] tool = "unzip" -> MsgUnzip
              [] tool = "tar" -> MsgTar,
   cause |-> underlying(kind)]

\* The message as one string, as ui.error shows it.
render(e) ==
  CASE e.text = MsgPowerShell /\ e.cause = "command not found" ->
         "Extraction failed: PowerShell Expand-Archive failed. Ensure PowerShell is available and try again. (command not found)"
    [] e.text = MsgPowerShell /\ e.cause = "exit code 1" ->
         "Extraction failed: PowerShell Expand-Archive failed. Ensure PowerShell is available and try again. (exit code 1)"
    [] e.text = MsgUnzip /\ e.cause = "command not found" ->
         "Extraction failed: unzip is not available or failed. Install unzip and try again. (command not found)"
    [] e.text = MsgUnzip /\ e.cause = "exit code 1" ->
         "Extraction failed: unzip is not available or failed. Install unzip and try again. (exit code 1)"
    [] e.text = MsgTar /\ e.cause = "command not found" ->
         "Extraction failed: tar is not available or the archive is corrupted. Install tar and try again. (command not found)"
    [] e.text = MsgTar /\ e.cause = "exit code 1" ->
         "Extraction failed: tar is not available or the archive is corrupted. Install tar and try again. (exit code 1)"

ExtractMessages ==
  {render(extractError(t, k)) :
     t \in {"powershell", "unzip", "tar"}, k \in {"toolMissing", "corrupt"}}

\* ----------------------------------------- downloadOsxExpertsFallback, rest
\* What fetchOsxExpertsChecksum can end with: a rejection (network error),
\* no digest found in the page, or a digest that equals or differs from the
\* SHA-256 of the downloaded archive.
Lookups == {"error", "none", "match", "mismatch"}

\* safeFetchOsxChecksum: a rejected lookup becomes null.
safeFetchOsxChecksum(fetched) == IF fetched = "error" THEN "none" ELSE fetched

\* verifyOsxArchive that treats a missing digest as a mismatch.
OsxVerifyAsksWithoutDigest(c, fetched, hashed) ==
  /\ pc[c] = "osx_verify"
  /\ IF hashed /\ fetched = "match"
     THEN /\ Goto(c, "osx_extract")
          /\ UNCHANGED dlVars
          /\ Did("digestOk")
     ELSE /\ Goto(c, "osx_confirm")
          /\ UNCHANGED dlVars
          /\ Did("mismatch")
  /\ UNCHANGED <<envVars, prior, mgrVars, fsVars, brewVars, errors>>
  /\ UNCHANGED auxVars

\* verifyOsxArchive: without an expected digest the archive is accepted
\* unhashed; otherwise it is hashed (computeFileSha256 can fail) and the two
\* digests are compared; on a difference the user is asked.
OsxVerify(c, fetched, hashed) ==
  /\ pc[c] = "osx_verify"
  /\ LET expectedSha == safeFetchOsxChecksum(fetched)
     IN  IF expectedSha = "none"
         THEN /\ Goto(c, "osx_extract")
              /\ UNCHANGED dlVars
              /\ Did("noDigest")
         ELSE IF ~hashed
              THEN AltReturnsFalse(c)
              ELSE IF expectedSha = "match"
                   THEN /\ Goto(c, "osx_extract")
                        /\ UNCHANGED dlVars
                        /\ Did("digestOk")
                   ELSE /\ Goto(c, "osx_confirm")
                        /\ UNCHANGED dlVars
                        /\ Did("mismatch")
  /\ UNCHANGED <<envVars, prior, mgrVars, fsVars, brewVars, errors>>
  /\ UNCHANGED auxVars

\* 'Continue anyway?' answered by extracting whatever the answer is.
OsxConfirmAlwaysProceeds(c, choice) ==
  /\ pc[c] = "osx_confirm"
  /\ Goto(c, "osx_extract")
  /\ UNCHANGED <<dlVars, steps, osxArchive>>
  /\ UNCHANGED <<envVars, prior, mgrVars, dirs, archive, execFile, execBit,
                 nestedFile, brewVars, errors>>
  /\ UNCHANGED auxVars

\* 'Checksum mismatch ... Continue anyway?': any answer but Continue unlinks
\* the archive; a rejected prompt is caught by the fallback's try.
OsxConfirm(c, choice) ==
  /\ pc[c] = "osx_confirm"
  /\ CASE choice = "Continue" ->
            /\ Goto(c, "osx_extract")
            /\ UNCHANGED <<dlVars, steps, osxArchive>>
       [] choice = "reject" ->
            /\ AltReturnsFalse(c)
            /\ UNCHANGED osxArchive
       [] OTHER ->
            /\ AltReturnsFalse(c)
            /\ osxArchive' = "absent"
  /\ UNCHANGED <<envVars, prior, mgrVars, dirs, archive, execFile, execBit,
                 nestedFile, brewVars, errors>>
  /\ UNCHANGED auxVars

\* installOsxArchive: extractArchive(osxArchive, ffmpegDir, ''), then the
\* existence test.
OsxExtract(c, out) ==
  /\ pc[c] = "osx_extract"
  /\ out \in Payloads => osxArchive = "complete"
  /\ IF out \in Payloads
     THEN /\ ExtractInto(out, "")
          /\ IF execFile' = "absent"
             THEN AltReturnsFalse(c)
             ELSE /\ Goto(c, "osx_activate")
                  /\ UNCHANGED <<dlVars, steps>>
     ELSE /\ ExtractFails(out, "")
          /\ AltReturnsFalse(c)
  /\ UNCHANGED <<envVars, prior, mgrVars, dirs, archive, osxArchive, brewVars,
                 errors>>
  /\ UNCHANGED auxVars

\* installOsxArchive: xattr (failure ignored), chmodSync.
OsxActivate(c) ==
  /\ pc[c] = "osx_activate"
  /\ execBit' = TRUE
  /\ Goto(c, "osx_probe")
  /\ UNCHANGED <<envVars, mgrVars, dirs, archive, osxArchive, execFile,
                 nestedFile, brewVars, errors, dlVars, obsVars>>
  /\ UNCHANGED auxVars

\* installOsxArchive: the version probe; on success the path is adopted.
OsxProbe(c) ==
  /\ pc[c] = "osx_probe"
  /\ IF Runs(execFile, execBit)
     THEN /\ installFfmpegSucceed(c, BundledPath)
          /\ Did("altTrue")
     ELSE /\ AltReturnsFalse(c)
          /\ UNCHANGED <<mgrVars, errors>>
  /\ UNCHANGED <<envVars, prior, fsVars, brewVars>>
  /\ UNCHANGED auxVars

\* ------------------------------------------------------------- direct path
\* extractAndCleanup: extractArchive, then the archive is unlinked.  When the
\* extraction throws, the unlink is not reached.
Extract(c, out) ==
  /\ pc[c] = "extract"
  /\ out \in Payloads => archive = "complete"
  /\ out \notin Payloads => extractTool(binaryInfo.filename, platform) # "none"
  /\ IF out \in Payloads
     THEN /\ ExtractInto(out, binaryInfo.extractPath)
          /\ archive' = "absent"
          /\ Goto(c, nextStep("extract", platform))
          /\ Did("extract")
          /\ UNCHANGED <<mgrVars, errors, dlVars>>
     ELSE /\ ExtractFails(out, binaryInfo.extractPath)
          /\ installFfmpegCatch(c,
               render(extractError(extractTool(binaryInfo.filename, platform),
                                   out)))
          /\ UNCHANGED <<archive, steps>>
  /\ UNCHANGED <<envVars, prior, dirs, osxArchive, brewVars>>
  /\ UNCHANGED auxVars

\* makeExecutableAndVerify: fs.chmodSync(execPath, 0o755); it throws when the
\* file does not exist.
Chmod(c) ==
  /\ pc[c] = "chmod"
  /\ IF execFile = "absent"
     THEN /\ installFfmpegCatch(c, "chmod")
          /\ UNCHANGED <<execBit, steps>>
     ELSE /\ execBit' = TRUE
          /\ Goto(c, nextStep("chmod", platform))
          /\ Did("chmod")
          /\ UNCHANGED <<mgrVars, errors, dlVars>>
  /\ UNCHANGED <<envVars, prior, dirs, archive, osxArchive, execFile,
                 nestedFile, brewVars>>
  /\ UNCHANGED auxVars

\* makeExecutableAndVerify with the path recorded before the probe.
VerifyRecordsFirst(c) ==
  /\ pc[c] = "verify"
  /\ ffmpegPath' = BundledPath
  /\ isDownloading' = FALSE
  /\ IF Runs(execFile, execBit)
     THEN /\ Leave(c, TRUE, "installed", 0, "none")
          /\ steps' = steps \o <<"verify", "record">>
     ELSE /\ Leave(c, FALSE, "catch", 1, "version probe")
          /\ UNCHANGED steps
  /\ UNCHANGED <<envVars, prior, fsVars, brewVars>>
  /\ UNCHANGED auxVars

\* makeExecutableAndVerify: the version probe; only when it succeeds is
\* this.ffmpegPath assigned, and the attempt ends successfully.
Verify(c) ==
  /\ pc[c] = "verify"
  /\ IF Runs(execFile, execBit)
     THEN /\ installFfmpegSucceed(c, BundledPath)
          /\ steps' = steps \o <<"verify", "record">>
     ELSE /\ installFfmpegCatch(c, "version probe")
          /\ UNCHANGED steps
  /\ UNCHANGED <<envVars, prior, fsVars, brewVars>>
  /\ UNCHANGED auxVars

\* installFfmpeg(force) is called by c and runs up to its first await or
\* return.
Call(c, f) ==
  \/ CallBusy(c, f)
  \/ CallUnsupported(c, f)
  \/ CallAlready(c, f)
  \/ CallStart(c, f)

\* A pending call of c is resumed.
Resumed(c) ==
  /\ InFlight(c)
  /\ pc'[c] # pc[c] \/ redirects'[c] # redirects[c]

\* ------------------------------------------------------------ specification
Next ==
  \/ \E c \in Callers, f \in BOOLEAN : CallBusy(c, f)
  \/ \E c \in Callers, f \in BOOLEAN : CallUnsupported(c, f)
  \/ \E c \in Callers, f \in BOOLEAN : CallAlready(c, f)
  \/ \E c \in Callers, f \in BOOLEAN : CallStart(c, f)
  \/ \E c \in Callers : WithProgressRejects(c)
  \/ \E c \in Callers : EnsureDirectoriesFails(c)
  \/ \E c \in Callers : StartTask(c)
  \/ \E c \in Callers : BrewProbe(c)
  \/ \E c \in Callers, p \in {WhichPath, "ffmpeg"} : BrewListHit(c, p)
  \/ \E c \in Callers : BrewListMiss(c)
  \/ \E c \in Callers, ch \in {"Install now", "Cancel", "undefined"} :
        PromptFfmpeg(c, ch)
  \/ \E c \in Callers, ok \in BOOLEAN, w \in {WhichPath, "ffmpeg", NullPath} :
        BrewInstall(c, ok, w)
  \/ \E c \in Callers,
        ch \in {"Install Homebrew", "Download Apple Silicon binary", "Cancel",
                "undefined"} : PromptBrew(c, ch)
  \/ \E c \in Callers, ch \in {"Install", "Cancel", "undefined"} : Consent(c, ch)
  \/ \E c \in Callers, ok \in BOOLEAN : BrewScript(c, ok)
  \/ \E c \in Callers : PromptRejects(c)
  \/ \E c \in Callers : DlRequest(c)
  \/ \E c \in Callers : DlConnError(c)
  \/ \E c \in Callers : DlRedirect(c)
  \/ \E c \in Callers, code \in StatusCodes : DlHttpError(c, code)
  \/ \E c \in Callers : DlOk(c)
  \/ \E c \in Callers : DlFinish(c)
  \/ \E c \in Callers : DlStall(c)
  \/ \E c \in Callers, l \in Lookups, h \in BOOLEAN : OsxVerify(c, l, h)
  \/ \E c \in Callers, ch \in {"Continue", "Cancel", "undefined", "reject"} :
        OsxConfirm(c, ch)
  \/ \E c \in Callers, out \in ExtractOutcomes : OsxExtract(c, out)
  \/ \E c \in Callers : OsxActivate(c)
  \/ \E c \in Callers : OsxProbe(c)
  \/ \E c \in Callers, out \in ExtractOutcomes : Extract(c, out)
  \/ \E c \in Callers : Chmod(c)
  \/ \E c \in Callers : Verify(c)

Spec == Init /\ [][Next]_vars

\* ------------------------------------------------------ fair specification
\* The event loop runs every continuation that is ready: a pending call of c
\* whose next step is enabled is eventually resumed.  Which event the server
\* or a stream delivers stays a free choice.
Continue(c) == Next /\ Resumed(c)

SpecFair == Spec /\ \A c \in Callers : WF_vars(Continue(c))

\* ------------------------------------------------------ progress reporting
\* One withProgress task of installFfmpeg, seen through the update callback
\* that VsCodeUiPort.withProgress hands to it.
MaxTotal == 5
MaxChunk == 2

\* A clamp that lets every value through.
clampNone(percent) == percent

\* Math.min(100, Math.max(0, percent))
clamp(percent) ==
  IF percent < 0 THEN 0 ELSE IF percent > 100 THEN 100 ELSE percent

\* Math.floor((downloaded / total) * 80)
percentOf(downloaded, total) == (downloaded * 80) \div total

\* update(percent, message): the port reports the increment
\* clamped - lastPercent and keeps clamped; the host adds the increment to
\* the progress it shows.
Update(percent) ==
  /\ uiLastPercent' = clamp(percent)
  /\ uiIncrement' = clamp(percent) - uiLastPercent
  /\ uiShown' = uiShown + uiIncrement'
  /\ updArg' = percent
  /\ updCalls' = updCalls + 1

NoUpdate == UNCHANGED <<uiLastPercent, updArg, updCalls, uiIncrement, uiShown>>

\* A host with a catalog entry, a fresh manager, the task about to start.
ProgInit ==
  /\ platform \in Platforms
  /\ arch \in Archs
  /\ resolveBinary(platform, arch) # <<>>
  /\ ffmpegPath = NullPath
  /\ isDownloading = TRUE
  /\ dirs = TRUE
  /\ archive = "absent"
  /\ osxArchive = "absent"
  /\ execFile = "absent"
  /\ execBit = FALSE
  /\ nestedFile = "absent"
  /\ brewAvail \in (IF isDarwinArm(platform, arch) THEN BOOLEAN ELSE {FALSE})
  /\ brewHasFfmpeg = FALSE
  /\ pc = [c \in Callers |-> IF c = 1 THEN "progress" ELSE "idle"]
  /\ errors = [c \in Callers |-> 0]
  /\ target = [c \in Callers |-> "none"]
  /\ url = [c \in Callers |-> "none"]
  /\ redirects = [c \in Callers |-> 0]
  /\ last = NoReturn
  /\ steps = <<>>
  /\ prior = "none"
  /\ pgPhase = "ready"
  /\ dlTotal = 0
  /\ dlDownloaded = 0
  /\ dlLastPercent = 0
  /\ uiLastPercent = 0
  /\ updArg = 0
  /\ updCalls = 0
  /\ uiIncrement = 0
  /\ uiShown = 0
  /\ CancelIdle
  /\ LocIdle
  /\ ExtIdle
  /\ MediaIdle

dlState == <<dlTotal, dlDownloaded, dlLastPercent>>

\* performInstallSteps: the alternate path on Apple Silicon, else the
\* download of the catalog archive.
PgStart ==
  /\ pgPhase = "ready"
  /\ pgPhase' = (IF isDarwinArm(platform, arch) THEN "alt" ELSE "request")
  /\ NoUpdate
  /\ UNCHANGED <<dlState, installVars, cancelVars, locVars, extVars, mediaVars>>

\* update(5, 'Installation via Homebrew...') / update(5, 'Installation
\* Homebrew...') before the brew commands.
PgBrew ==
  /\ pgPhase = "alt"
  /\ pgPhase' = "brew"
  /\ Update(5)
  /\ UNCHANGED <<dlState, installVars, cancelVars, locVars, extVars, mediaVars>>

\* The brew commands succeed: the task is over.
PgBrewDone ==
  /\ pgPhase = "brew"
  /\ pgPhase' = "done"
  /\ NoUpdate
  /\ UNCHANGED <<dlState, installVars, cancelVars, locVars, extVars, mediaVars>>

\* downloadOsxExpertsFallback: update(5, 'Downloading Apple Silicon binary
\* (osxexperts)...'), then downloadWithProgress.
PgFallback ==
  /\ pgPhase \in {"alt", "brew"}
  /\ pgPhase' = "osx_request"
  /\ Update(5)
  /\ UNCHANGED <<dlState, installVars, cancelVars, locVars, extVars, mediaVars>>

\* The alternate path returns false without the fallback (the first prompt
\* was cancelled), or the fallback fails before its extraction message.
PgAltFalse ==
  /\ pgPhase \in {"alt", "osx_request", "osx_stream", "osx_after"}
  /\ pgPhase' = "request"
  /\ NoUpdate
  /\ UNCHANGED <<dlState, installVars, cancelVars, locVars, extVars, mediaVars>>

\* A 200 response: total is read from content-length (0 when absent),
\* downloaded and lastPercent start at 0.
PgResponse(total) ==
  /\ pgPhase \in {"osx_request", "request"}
  /\ pgPhase' = (IF pgPhase = "request" THEN "stream" ELSE "osx_stream")
  /\ dlTotal' = total
  /\ dlDownloaded' = 0
  /\ dlLastPercent' = 0
  /\ NoUpdate
  /\ UNCHANGED <<installVars, cancelVars, locVars, extVars, mediaVars>>

\* response.on('data'): a chunk of n bytes.
PgData(n) ==
  /\ pgPhase \in {"osx_stream", "stream"}
  /\ dlDownloaded + n <= (IF dlTotal > 0 THEN dlTotal ELSE MaxTotal)
  /\ dlDownloaded' = dlDownloaded + n
  /\ IF dlTotal > 0 /\ percentOf(dlDownloaded', dlTotal) > dlLastPercent
     THEN /\ Update(percentOf(dlDownloaded', dlTotal) - dlLastPercent)
          /\ dlLastPercent' = percentOf(dlDownloaded', dlTotal)
     ELSE /\ NoUpdate
          /\ UNCHANGED dlLastPercent
  /\ UNCHANGED <<pgPhase, dlTotal, installVars, cancelVars, locVars, extVars, mediaVars>>

\* file 'finish': the download promise resolves.
PgFinish ==
  /\ pgPhase \in {"osx_stream", "stream"}
  /\ dlTotal > 0 => dlDownloaded = dlTotal
  /\ pgPhase' = (IF pgPhase = "stream" THEN "done" ELSE "osx_after")
  /\ NoUpdate
  /\ UNCHANGED <<dlState, installVars, cancelVars, locVars, extVars, mediaVars>>

\* downloadOsxExpertsFallback after verifyOsxArchive: update(90,
\* 'Extraction...'); installOsxArchive then succeeds or not.
PgOsxExtraction(ok) ==
  /\ pgPhase = "osx_after"
  /\ pgPhase' = (IF ok THEN "done" ELSE "request")
  /\ Update(90)
  /\ UNCHANGED <<dlState, installVars, cancelVars, locVars, extVars, mediaVars>>

ProgNext ==
  \/ PgStart
  \/ PgBrew
  \/ PgBrewDone
  \/ PgFallback
  \/ PgAltFalse
  \/ \E total \in 0..MaxTotal : PgResponse(total)
  \/ \E n \in 1..MaxChunk : PgData(n)
  \/ PgFinish
  \/ \E ok \in BOOLEAN : PgOsxExtraction(ok)

SpecProgress == ProgInit /\ [][ProgNext]_vars

\* ------------------------------------- earlier revision: cancellable install
\* installFfmpeg of the earlier revision on a host without the alternate
\* path: vscode.window.withProgress with cancellable: true hands the task a
\* cancellation token, which downloadWithProgress listens to.
CancelInit ==
  /\ platform \in Platforms
  /\ arch \in Archs
  /\ resolveBinaryExactOnly(platform, arch) # <<>>
  /\ ~isDarwinArm(platform, arch)
  /\ ffmpegPath = NullPath
  /\ isDownloading = TRUE
  /\ dirs = TRUE
  /\ archive = "absent"
  /\ osxArchive = "absent"
  /\ execFile = "absent"
  /\ execBit = FALSE
  /\ nestedFile = "absent"
  /\ brewAvail = FALSE
  /\ brewHasFfmpeg = FALSE
  /\ pc = [c \in Callers |-> "idle"]
  /\ errors = [c \in Callers |-> 0]
  /\ target = [c \in Callers |-> "none"]
  /\ url = [c \in Callers |-> "none"]
  /\ redirects = [c \in Callers |-> 0]
  /\ last = NoReturn
  /\ steps = <<>>
  /\ prior = "none"
  /\ ProgIdle
  /\ LocIdle
  /\ ExtIdle
  /\ MediaIdle
  /\ ePc = "ready"
  /\ token = FALSE
  /\ eListeners = 0
  /\ eDest = "absent"
  /\ eStreams = 0
  /\ eRequest = "none"
  /\ eRedirects = 0
  /\ eExec \in {"absent", "old"}
  /\ eResult = "none"
  /\ eError = "none"

ERest == <<installVars, progVars, locVars, extVars, mediaVars>>

\* catch: showErrorMessage(`FFmpeg install error: ${message}`), return false.
eCatch(message) ==
  /\ ePc' = "returned"
  /\ eResult' = "false"
  /\ eError' = message

\* The task starts: ensureDirectories, then downloadWithProgress creates the
\* write stream, sends the request and registers its listener on the token.
EDownload ==
  /\ ePc = "ready"
  /\ ePc' = "dl_wait"
  /\ eDest' = "partial"
  /\ eStreams' = 1
  /\ eRequest' = "inflight"
  /\ eListeners' = 1
  /\ UNCHANGED <<token, eRedirects, eExec, eResult, eError, ERest>>

\* 301/302 with Location: the recursive call opens another stream on dest,
\* sends another request and registers another listener.
ERedirect ==
  /\ ePc = "dl_wait"
  /\ eRedirects < MaxRedirects
  /\ eRedirects' = eRedirects + 1
  /\ eDest' = "partial"
  /\ eStreams' = eStreams + 1
  /\ eListeners' = eListeners + 1
  /\ UNCHANGED <<ePc, token, eRequest, eExec, eResult, eError, ERest>>

\* reject(new Error(`HTTP ${statusCode}`)) or request.on('error', reject).
ERejected(message) ==
  /\ ePc = "dl_wait"
  /\ eCatch(message)
  /\ eRequest' = "done"
  /\ UNCHANGED <<token, eListeners, eDest, eStreams, eRedirects, eExec, ERest>>

\* Status 200: the body is piped to the file.
EOk ==
  /\ ePc = "dl_wait"
  /\ ePc' = "dl_stream"
  /\ UNCHANGED <<token, eListeners, eDest, eStreams, eRequest, eRedirects,
                 eExec, eResult, eError, ERest>>

\* file 'finish': file.close(), resolve().  The task tests
\* token.isCancellationRequested, reports 'Extracting...' and starts the
\* extraction command.  The listeners stay registered.
EFinish ==
  /\ ePc = "dl_stream"
  /\ eDest' = "complete"
  /\ eStreams' = eStreams - 1
  /\ eRequest' = "done"
  /\ IF token
     THEN eCatch("Download canceled")
     ELSE /\ ePc' = "extracting"
          /\ UNCHANGED <<eResult, eError>>
  /\ UNCHANGED <<token, eListeners, eRedirects, eExec, ERest>>

\* Listeners that tear the streams down and leave dest in place.
cancelEffectsKeepsFile(p, dest) == dest

\* The listeners registered by downloadWithProgress, run on cancellation:
\* request.destroy(), file.destroy(), unlink dest if it exists, reject.
cancelEffects(p, dest) == "absent"

\* The user presses Cancel on the notification: the token is cancelled and
\* every registered listener runs.  reject(new Error('Canceled')) settles
\* the download promise only if it is still pending.
ECancel ==
  /\ ePc \in {"dl_wait", "dl_stream", "extracting", "chmod", "verify"}
  /\ ~token
  /\ token' = TRUE
  /\ eDest' = cancelEffects(ePc, eDest)
  /\ eStreams' = 0
  /\ eRequest' = (IF eRequest = "inflight" THEN "destroyed" ELSE eRequest)
  /\ IF ePc \in {"dl_wait", "dl_stream"}
     THEN eCatch("Canceled")
     ELSE UNCHANGED <<ePc, eResult, eError>>
  /\ UNCHANGED <<eListeners, eRedirects, eExec, ERest>>

\* extractArchive ends, then the cleanup unlinks the archive if it exists.
\* If the archive was unlinked while the command ran, the command either had
\* it open already or fails.
EExtract(out) ==
  /\ ePc = "extracting"
  /\ IF out \in Payloads
     THEN /\ eExec' = (IF out = "nobin" THEN eExec ELSE out)
          /\ eDest' = "absent"
          /\ ePc' = nextStep("extract", platform)
          /\ UNCHANGED <<eResult, eError>>
     ELSE /\ eExec' = (IF out = "corrupt" THEN "broken" ELSE eExec)
          /\ eCatch("Extraction failed")
          /\ UNCHANGED eDest
  /\ UNCHANGED <<token, eListeners, eStreams, eRequest, eRedirects, ERest>>

\* fs.chmodSync(execPath, 0o755)
EChmod ==
  /\ ePc = "chmod"
  /\ IF eExec = "absent"
     THEN eCatch("chmod")
     ELSE /\ ePc' = nextStep("chmod", platform)
          /\ UNCHANGED <<eResult, eError>>
  /\ UNCHANGED <<token, eListeners, eDest, eStreams, eRequest, eRedirects,
                 eExec, ERest>>

\* execAsync(`"${finalPath}" -version`), this.ffmpegPath = finalPath,
\* return true.
EVerify ==
  /\ ePc = "verify"
  /\ IF eExec \in Working
     THEN /\ ePc' = "returned"
          /\ eResult' = "true"
          /\ UNCHANGED eError
     ELSE eCatch("version probe")
  /\ UNCHANGED <<token, eListeners, eDest, eStreams, eRequest, eRedirects,
                 eExec, ERest>>

CancelNext ==
  \/ EDownload
  \/ ERedirect
  \/ \E code \in StatusCodes : ERejected(httpError(code))
  \/ ERejected("request error")
  \/ EOk
  \/ EFinish
  \/ ECancel
  \/ \E out \in ExtractOutcomes : EExtract(out)
  \/ EChmod
  \/ EVerify

SpecCancel == CancelInit /\ [][CancelNext]_vars

\* ------------------------------------------------ getFfmpegPath, getVersion
SystemPath == "/usr/bin/ffmpeg"

\* What `-version` prints, as words separated by white space.
BannerOld == <<"ffmpeg", "version", "6.1", "Copyright">>
BannerNew == <<"ffmpeg", "version", "7.1", "Copyright">>
Stdouts == {BannerOld, BannerNew, <<"ffmpeg", "version">>, <<"FFmpeg", "7.1">>,
            <<>>}

\* The output of the executable of the install directory.
banner(content) == IF content = "old" THEN BannerOld ELSE BannerNew

\* stdout.includes('ffmpeg version')
includesVersion(out) ==
  \E i \in 1..(Len(out) - 1) : out[i] = "ffmpeg" /\ out[i + 1] = "version"

\* /ffmpeg version ([^\s]+)/.exec(stdout): the positions where the pattern
\* matches, a token included.
matches(out) ==
  {i \in 1..(Len(out) - 2) : out[i] = "ffmpeg" /\ out[i + 1] = "version"}

\* getVersion that reports a missing token as a failure.
parseVersionStrict(out) ==
  IF matches(out) = {} THEN "Error"
  ELSE out[(CHOOSE i \in matches(out) : \A j \in matches(out) : i <= j) + 2]

\* match ? match[1] : 'Unknown'
parseVersion(out) ==
  IF matches(out) = {} THEN "Unknown"
  ELSE out[(CHOOSE i \in matches(out) : \A j \in matches(out) : i <= j) + 2]

\* A study of the locator alone: a manager in any state an install, a
\* Homebrew adoption or an earlier lookup can leave, no install pending.
LocInit ==
  /\ platform \in Platforms
  /\ arch \in {ArchX64, ArchArm64}
  /\ ffmpegPath \in {NullPath, BundledPath, SystemPath, "ffmpeg"}
  /\ isDownloading = FALSE
  /\ dirs = TRUE
  /\ archive = "absent"
  /\ osxArchive = "absent"
  /\ execFile \in {"absent", "old", "new", "broken"}
  /\ execBit \in (IF execFile = "absent" THEN {FALSE} ELSE BOOLEAN)
  /\ nestedFile = "absent"
  /\ brewAvail = FALSE
  /\ brewHasFfmpeg = FALSE
  /\ pc = [c \in Callers |-> "idle"]
  /\ errors = [c \in Callers |-> 0]
  /\ target = [c \in Callers |-> "none"]
  /\ url = [c \in Callers |-> "none"]
  /\ redirects = [c \in Callers |-> 0]
  /\ last = NoReturn
  /\ steps = <<>>
  /\ prior = "none"
  /\ ProgIdle
  /\ CancelIdle
  /\ lPc = "idle"
  /\ lOp = "none"
  /\ lStorage \in BOOLEAN
  /\ lFound = "none"
  /\ lResult = "none"
  /\ lProbes = <<>>
  /\ ExtIdle
  /\ MediaIdle

\* What no step of the locator touches.
LocFrame ==
  UNCHANGED <<envVars, isDownloading, fsVars, brewVars, callVars, obsVars,
              progVars, cancelVars, extVars, mediaVars,
              lStorage>>

\* getFfmpegPath resolves with `found`; getVersion goes on with it.
LocReturn(op, found, res) ==
  /\ lFound' = found
  /\ lPc' = (IF op = "version" /\ found # NullPath THEN "version_probe"
             ELSE "idle")
  /\ lResult' = (IF op = "version" /\ found = NullPath THEN "Not installed"
                 ELSE res)

\* fs.existsSync(this.ffmpegPath): the file of the install directory is in
\* the model; for any other path the file system answers.
cachedExists(exists) ==
  IF ffmpegPath = BundledPath THEN execFile # "absent" ELSE exists

\* The call, up to its first await: the cached path if it still exists, else
\* the existence test of the bundled executable.
LocCall(op, exists) ==
  /\ lPc = "idle"
  /\ \A c \in Callers : pc[c] = "idle"
  /\ lOp' = op
  /\ lProbes' = <<>>
  /\ IF ffmpegPath # NullPath /\ cachedExists(exists)
     THEN LocReturn(op, ffmpegPath, "none")
     ELSE /\ lPc' = (IF lStorage /\ execFile # "absent" THEN "probe_bundled"
                     ELSE "resolve")
          /\ lFound' = "none"
          /\ lResult' = "none"
  /\ UNCHANGED ffmpegPath
  /\ LocFrame

\* The bundled probe that trusts the file's existence.
LocProbeBundledUnverified ==
  /\ lPc = "probe_bundled"
  /\ lProbes' = Append(lProbes, "bundled")
  /\ ffmpegPath' = BundledPath
  /\ LocReturn(lOp, BundledPath, lResult)
  /\ UNCHANGED lOp
  /\ LocFrame

\* execFileAsync(bundledPath, ['-version']): on success the path is cached
\* and returned, on failure the lookup goes on.
LocProbeBundled ==
  /\ lPc = "probe_bundled"
  /\ lProbes' = Append(lProbes, "bundled")
  /\ IF Runs(execFile, execBit)
     THEN /\ ffmpegPath' = BundledPath
          /\ LocReturn(lOp, BundledPath, lResult)
     ELSE /\ lPc' = "resolve"
          /\ UNCHANGED <<ffmpegPath, lFound, lResult>>
  /\ UNCHANGED lOp
  /\ LocFrame

\* What resolveSystemFfmpeg meets: the where / command -v command fails,
\* prints nothing, or prints a path whose probe succeeds or fails.
SystemAnswers == {"fail", "empty", "good", "bad"}

\* resolveSystemFfmpeg that returns nothing to cache.
LocResolveNoCache(answer) ==
  /\ lPc = "resolve"
  /\ lProbes' = (IF answer \in {"good", "bad"}
                 THEN Append(lProbes, "system") ELSE lProbes)
  /\ IF answer = "good"
     THEN LocReturn(lOp, SystemPath, lResult)
     ELSE /\ lPc' = "bare"
          /\ UNCHANGED <<lFound, lResult>>
  /\ UNCHANGED <<ffmpegPath, lOp>>
  /\ LocFrame

\* resolveSystemFfmpeg: the first line printed is probed and, if the probe
\* succeeds, cached and returned; every failure leads to the bare command.
LocResolve(answer) ==
  /\ lPc = "resolve"
  /\ lProbes' = (IF answer \in {"good", "bad"}
                 THEN Append(lProbes, "system") ELSE lProbes)
  /\ IF answer = "good"
     THEN /\ ffmpegPath' = SystemPath
          /\ LocReturn(lOp, SystemPath, lResult)
     ELSE /\ lPc' = "bare"
          /\ UNCHANGED <<ffmpegPath, lFound, lResult>>
  /\ UNCHANGED lOp
  /\ LocFrame

\* execAsync('ffmpeg -version'): 'ffmpeg' is cached and returned if the
\* command succeeds and prints 'ffmpeg version'; otherwise null.
LocBare(ok, out) ==
  /\ lPc = "bare"
  /\ lProbes' = Append(lProbes, "bare")
  /\ IF ok /\ includesVersion(out)
     THEN /\ ffmpegPath' = "ffmpeg"
          /\ LocReturn(lOp, "ffmpeg", lResult)
     ELSE /\ LocReturn(lOp, NullPath, lResult)
          /\ UNCHANGED ffmpegPath
  /\ UNCHANGED lOp
  /\ LocFrame

\* getVersion: execFileAsync(ffmpegPath, ['-version']) and the pattern.  The
\* executable of the install directory answers as its contents do, any other
\* one as the system decides.
LocVersion(ok, out) ==
  /\ lPc = "version_probe"
  /\ lFound = BundledPath => /\ ok = Runs(execFile, execBit)
                             /\ out = banner(execFile)
  /\ lProbes' = Append(lProbes, "version")
  /\ lResult' = (IF ok THEN parseVersion(out) ELSE "Error")
  /\ lPc' = "idle"
  /\ UNCHANGED <<ffmpegPath, lOp, lFound>>
  /\ LocFrame

LocNext ==
  \/ \E op \in {"path", "version"}, exists \in BOOLEAN : LocCall(op, exists)
  \/ LocProbeBundled
  \/ \E answer \in SystemAnswers : LocResolve(answer)
  \/ \E ok \in BOOLEAN, out \in Stdouts : LocBare(ok, out)
  \/ \E ok \in BOOLEAN, out \in Stdouts : LocVersion(ok, out)

SpecLocate == LocInit /\ [][LocNext]_vars

\* -------------------------------------------- installs, then the locator
\* Install attempts as in Spec, followed by calls of getFfmpegPath and
\* getVersion on the manager and the files the attempts left.
InstallThenLocateNext ==
  \/ LocIdle /\ Next
  \/ LocNext

SpecInstallThenLocate == Init /\ [][InstallThenLocateNext]_vars

\* ------------------------------------------------- extractArchive by itself
\* Archive names beyond the catalog's: another zip, a gzip tarball and a name
\* that ends in 'zip' without the dot.
FileOsxZip == <<"o", "s", "x", ".", "z", "i", "p">>
FileTarGz == <<"f", ".", "t", "a", "r", ".", "g", "z">>
FileNoDot == <<"f", "z", "i", "p">>
ArchiveNames == {FileZip, FileTarXz, FileOsxZip, FileTarGz, FileNoDot}

\* extractArchive is about to be called with any archive name and
\* extractSubPath on any platform.
ExtractInit ==
  /\ platform = "linux"
  /\ arch = ArchX64
  /\ ffmpegPath = NullPath
  /\ isDownloading = FALSE
  /\ dirs = TRUE
  /\ archive = "absent"
  /\ osxArchive = "absent"
  /\ execFile = "absent"
  /\ execBit = FALSE
  /\ nestedFile = "absent"
  /\ brewAvail = FALSE
  /\ brewHasFfmpeg = FALSE
  /\ pc = [c \in Callers |-> "idle"]
  /\ errors = [c \in Callers |-> 0]
  /\ target = [c \in Callers |-> "none"]
  /\ url = [c \in Callers |-> "none"]
  /\ redirects = [c \in Callers |-> 0]
  /\ last = NoReturn
  /\ steps = <<>>
  /\ prior = "none"
  /\ ProgIdle
  /\ CancelIdle
  /\ LocIdle
  /\ MediaIdle
  /\ xPc = "ready"
  /\ xArchive \in ArchiveNames
  /\ xPlatform \in Platforms
  /\ xSub \in {"", "ffmpeg-master-latest-win64-gpl/bin"}
  /\ xCommand = "none"
  /\ xStrip = FALSE
  /\ xKind = "none"
  /\ xThrown = "none"
  /\ xCopied = FALSE

\* extractArchive: the command chosen by suffix and platform runs and ends
\* as `kind` says; a failure is rethrown with the text for the tool; after a
\* success (or when no suffix matched and nothing ran) the binary of the
\* subfolder is copied if extractSubPath is set and the file exists.
ExtractArchive(kind, nestedExists) ==
  /\ xPc = "ready"
  /\ LET tool == extractTool(xArchive, xPlatform)
     IN  /\ kind # "ok" => tool # "none"
         /\ xCommand' = tool
         /\ xStrip' = (tool = "tar")
         /\ xKind' = kind
         /\ xThrown' = (IF kind = "ok" THEN "none"
                        ELSE render(extractError(tool, kind)))
         /\ xCopied' = (kind = "ok" /\ xSub # "" /\ nestedExists)
  /\ xPc' = "done"
  /\ UNCHANGED <<xArchive, xPlatform, xSub>>
  /\ UNCHANGED <<installVars, progVars, cancelVars, locVars, mediaVars>>

ExtractNext ==
  \E kind \in {"ok", "toolMissing", "corrupt"}, nestedExists \in BOOLEAN :
    ExtractArchive(kind, nestedExists)

SpecExtract == ExtractInit /\ [][ExtractNext]_vars

\* ------------------------------------------------- the progress wrapper
\* VsCodeUiPort.withProgress with a task that calls update with any values,
\* in any order.
MaxUpdates == 4
Percents == {-10, 0, 5, 30, 80, 100, 150}

\* A manager at rest on a host with a catalog entry: no call is pending.
ManagerIdle ==
  /\ platform = "linux"
  /\ arch = ArchX64
  /\ ffmpegPath = NullPath
  /\ isDownloading = FALSE
  /\ dirs = TRUE
  /\ archive = "absent"
  /\ osxArchive = "absent"
  /\ execFile = "absent"
  /\ execBit = FALSE
  /\ nestedFile = "absent"
  /\ brewAvail = FALSE
  /\ brewHasFfmpeg = FALSE
  /\ pc = [c \in Callers |-> "idle"]
  /\ errors = [c \in Callers |-> 0]
  /\ target = [c \in Callers |-> "none"]
  /\ url = [c \in Callers |-> "none"]
  /\ redirects = [c \in Callers |-> 0]
  /\ last = NoReturn
  /\ steps = <<>>
  /\ prior = "none"

\* withProgress has called the task: lastPercent = 0, nothing reported.
UiInit ==
  /\ ManagerIdle
  /\ pgPhase = "task"
  /\ dlTotal = 0
  /\ dlDownloaded = 0
  /\ dlLastPercent = 0
  /\ uiLastPercent = 0
  /\ updArg = 0
  /\ updCalls = 0
  /\ uiIncrement = 0
  /\ uiShown = 0
  /\ CancelIdle
  /\ LocIdle
  /\ ExtIdle
  /\ MediaIdle

\* The task calls update(percent).
UiUpdate(percent) ==
  /\ pgPhase = "task"
  /\ updCalls < MaxUpdates
  /\ Update(percent)
  /\ UNCHANGED <<pgPhase, dlState, installVars, cancelVars, locVars, extVars, mediaVars>>

UiNext == \E percent \in Percents : UiUpdate(percent)

SpecUiPort == UiInit /\ [][UiNext]_vars

\* ------------------------------------------------- OptimizationService
\* The setting magicvid2gif.gifsiclePath: "" stands for undefined or empty.
CustomPath == "/opt/tools/gifsicle"
Settings == {"", CustomPath}

\* checkGifsicle that probes the system before it looks at the setting.
checkGifsicleProbesFirst(customPath, exists, probeOk, recorded) ==
  IF probeOk
  THEN [ok |-> TRUE, path |-> "gifsicle", probes |-> 1]
  ELSE IF customPath # "" /\ exists
       THEN [ok |-> TRUE, path |-> customPath, probes |-> 1]
       ELSE [ok |-> FALSE, path |-> recorded, probes |-> 1]

\* checkGifsicle: the configured path if it is set and the file exists, else
\* one run of `gifsicle --version`; what it returns, what this.gifsiclePath
\* is afterwards (a failure leaves it as it was) and the probes it ran.
checkGifsicle(customPath, exists, probeOk, recorded) ==
  IF customPath # "" /\ exists
  THEN [ok |-> TRUE, path |-> customPath, probes |-> 0]
  ELSE IF probeOk
       THEN [ok |-> TRUE, path |-> "gifsicle", probes |-> 1]
       ELSE [ok |-> FALSE, path |-> recorded, probes |-> 1]

\* optimize that writes its result over the input file.
optimizeInPlace(command, input, now, runOk) ==
  IF command = NullPath
  THEN [thrown |-> "Gifsicle not available", path |-> NoPath, runs |-> 0,
        written |-> NoPath]
  ELSE [thrown |-> "none", path |-> input, runs |-> 1,
        written |-> IF runOk THEN input ELSE NoPath]

\* optimize, after its checkGifsicle: it throws without a command; else it
\* runs gifsicle with -o tempPath inputPath and returns tempPath if the run
\* succeeds, inputPath if it fails.  `written` is the file the run wrote.
optimize(command, input, now, runOk) ==
  IF command = NullPath
  THEN [thrown |-> "Gifsicle not available", path |-> NoPath, runs |-> 0,
        written |-> NoPath]
  ELSE [thrown |-> "none",
        path |-> IF runOk THEN TempPath(now) ELSE input,
        runs |-> 1,
        written |-> IF runOk THEN TempPath(now) ELSE NoPath]

\* A service just constructed; the GIF of a conversion exists.
OptInit ==
  /\ ManagerIdle
  /\ ProgIdle
  /\ CancelIdle
  /\ LocIdle
  /\ ExtIdle
  /\ gifsiclePath = NullPath
  /\ oOp = "none"
  /\ oOk = "none"
  /\ oProbes = 0
  /\ oRuns = 0
  /\ oReturn = NoPath
  /\ oThrown = "none"
  /\ oInput = NoPath
  /\ oWritten = NoPath
  /\ oNow = 0
  /\ oFiles = [q \in Paths |-> IF q = OutPath THEN "gif" ELSE "absent"]
  /\ ConvIdle

OptFrame ==
  UNCHANGED <<installVars, progVars, cancelVars, locVars, extVars, convVars>>

\* What a call of checkGifsicle does to the service.
CheckCall(setting, exists, probeOk) ==
  /\ LET r == checkGifsicle(setting, exists, probeOk, gifsiclePath)
     IN  /\ gifsiclePath' = r.path
         /\ oOk' = (IF r.ok THEN "true" ELSE "false")
         /\ oProbes' = r.probes
  /\ oOp' = "check"
  /\ oRuns' = 0
  /\ oReturn' = NoPath
  /\ oThrown' = "none"
  /\ oInput' = NoPath
  /\ oWritten' = NoPath
  /\ UNCHANGED oNow

\* A call of checkGifsicle.
OCheck(setting, exists, probeOk) ==
  /\ CheckCall(setting, exists, probeOk)
  /\ UNCHANGED oFiles
  /\ OptFrame

\* The files after the gifsicle run of optimize.
afterRun(files, written) ==
  [q \in Paths |-> IF q = written THEN "optimized" ELSE files[q]]

\* What a call of optimize(input, options) on an existing GIF does to the
\* service, at a time later than every earlier call; the files are left to
\* the caller of this operator.
OptimizeCall(input, setting, exists, probeOk, runOk) ==
  /\ oNow < MaxClock
  /\ oFiles[input] # "absent"
  /\ oNow' = oNow + 1
  /\ LET c == IF gifsiclePath = NullPath
              THEN checkGifsicle(setting, exists, probeOk, gifsiclePath)
              ELSE [ok |-> TRUE, path |-> gifsiclePath, probes |-> 0]
         r == optimize(c.path, input, oNow', runOk)
     IN  /\ gifsiclePath' = c.path
         /\ oProbes' = c.probes
         /\ oRuns' = r.runs
         /\ oReturn' = r.path
         /\ oThrown' = r.thrown
         /\ oWritten' = r.written
  /\ oOp' = "optimize"
  /\ oOk' = "none"
  /\ oInput' = input

\* A call of optimize.
OOptimize(input, setting, exists, probeOk, runOk) ==
  /\ OptimizeCall(input, setting, exists, probeOk, runOk)
  /\ oFiles' = afterRun(oFiles, oWritten')
  /\ OptFrame

OptNext ==
  \/ \E setting \in Settings, exists \in BOOLEAN, probeOk \in BOOLEAN :
       OCheck(setting, exists, probeOk)
  \/ \E input \in Paths, setting \in Settings, exists \in BOOLEAN,
        probeOk \in BOOLEAN, runOk \in BOOLEAN :
       OOptimize(input, setting, exists, probeOk, runOk)

SpecOptimize == OptInit /\ [][OptNext]_vars

\* ------------------------------------------------------ executeConversion
\* One conversion under vscode.window.withProgress (cancellable), with
\* VideoConverter.convert and the optimisation that follows it.  Percentages
\* are kept in tenths of a percent, so that 5 + adjusted * 0.8 is exact.
Levels == {"fast", "ultra"}
FfPercents == {-20, 0, 20, 50, 100, 130}
MsgCancelled == "Conversion cancelled by user"
MsgNoFfmpeg == "FFmpeg not available. Installation required."
MsgNotReady == "FFmpeg n'est pas disponible."

\* Math.min(Math.round(progress.percent * 0.85), 85)
adjustedPercent(percent) ==
  LET rounded == (percent * 85 + 50) \div 100
  IN  IF rounded < 85 THEN rounded ELSE 85

\* progressCallback: 5 + Math.min(Math.max(percent, 0), 100) * 0.8, in tenths
mapped(percent) ==
  LET adjusted == IF percent < 0 THEN 0
                  ELSE IF percent > 100 THEN 100 ELSE percent
  IN  50 + adjusted * 8

\* updateProgress that reports whatever it is given, up to 100.
updateProgressUnguarded(newPercent, displayed) ==
  LET clamped == IF newPercent < 1000 THEN newPercent ELSE 1000
  IN  [report |-> TRUE, increment |-> clamped - displayed,
       displayed |-> clamped]

\* updateProgress: clamped = min(100, max(newPercent, displayedPercent)); the
\* increment clamped - displayedPercent is reported, and displayedPercent
\* moved, only if it is positive.
updateProgress(newPercent, displayed) ==
  LET floored == IF newPercent > displayed THEN newPercent ELSE displayed
      clamped == IF floored < 1000 THEN floored ELSE 1000
      increment == clamped - displayed
  IN  IF increment > 0
      THEN [report |-> TRUE, increment |-> increment, displayed |-> clamped]
      ELSE [report |-> FALSE, increment |-> 0, displayed |-> displayed]

\* A call updateProgress(newPercent, message) and the host's running total.
UpdateProgress(newPercent) ==
  LET u == updateProgress(newPercent, cDisplayed)
  IN  /\ cDisplayed' = u.displayed
      /\ cReported' = u.report
      /\ cIncrement' = (IF u.report THEN u.increment ELSE cIncrement)
      /\ cShown' = (IF u.report THEN cShown + u.increment ELSE cShown)

NoProgress ==
  /\ cReported' = FALSE
  /\ UNCHANGED <<cDisplayed, cIncrement, cShown>>

\* The command executeConversion is about to be called: the converter has
\* been initialised or replaced by a new one, an output of an earlier
\* conversion may exist, and so may the ended command of that conversion.
ConvInit ==
  /\ ManagerIdle
  /\ ProgIdle
  /\ CancelIdle
  /\ LocIdle
  /\ ExtIdle
  /\ gifsiclePath = NullPath
  /\ oOp = "none"
  /\ oOk = "none"
  /\ oProbes = 0
  /\ oRuns = 0
  /\ oReturn = NoPath
  /\ oThrown = "none"
  /\ oInput = NoPath
  /\ oWritten = NoPath
  /\ oNow = 0
  /\ oFiles \in {[q \in Paths |-> IF q = OutPath THEN c ELSE "absent"] :
                  c \in {"absent", "gif"}}
  /\ cPc = "ready"
  /\ cToken = FALSE
  /\ cListener = FALSE
  /\ cReady \in BOOLEAN
  /\ cCommand \in (IF cReady THEN {"none", "ended"} ELSE {"none"})
  /\ cLevel \in Levels
  /\ cError = "none"
  /\ cDisplayed = 0
  /\ cIncrement = 0
  /\ cShown = 0
  /\ cReported = FALSE
  /\ cOptimized = FALSE

ConvFrame == UNCHANGED <<installVars, progVars, cancelVars, locVars, extVars>>

OptUntouched ==
  UNCHANGED <<gifsiclePath, oOp, oOk, oProbes, oRuns, oReturn, oThrown, oInput,
              oWritten, oNow>>

\* The catch of executeConversion that rethrows without the cleanup.
FailKeepsFile(message, files) ==
  /\ cError' = message
  /\ cPc' = "failed"
  /\ oFiles' = files

\* The catch of executeConversion: the output file is removed if it exists,
\* the error is rethrown.
Fail(message, files) ==
  /\ cError' = message
  /\ cPc' = "failed"
  /\ oFiles' = [files EXCEPT ![OutPath] = "absent"]

\* executeConversion is called: updateProgress(0, 'Preparing...'), then
\* getFfmpegPath is awaited.
CCall ==
  /\ cPc = "ready"
  /\ cPc' = "locate"
  /\ UpdateProgress(0)
  /\ UNCHANGED <<cToken, cListener, cCommand, cReady, cLevel, cError,
                 cOptimized, oFiles>>
  /\ OptUntouched
  /\ ConvFrame

\* getFfmpegPath resolves.  Without a path the function throws, before its
\* try.  With one: the listener is registered, an existing output file is
\* removed, updateProgress(5, ...), and convert is called, which creates and
\* starts its command at once if the converter has its path, and awaits
\* initialize() if not.
CLocated(found) ==
  /\ cPc = "locate"
  /\ IF found
     THEN /\ cListener' = TRUE
          /\ oFiles' = [oFiles EXCEPT ![OutPath] = "absent"]
          /\ UpdateProgress(50)
          /\ cPc' = (IF cReady THEN "running" ELSE "init")
          /\ cCommand' = (IF cReady THEN "running" ELSE cCommand)
          /\ UNCHANGED cError
     ELSE /\ cError' = MsgNoFfmpeg
          /\ cPc' = "failed"
          /\ NoProgress
          /\ UNCHANGED <<cListener, cCommand, oFiles>>
  /\ UNCHANGED <<cToken, cReady, cLevel, cOptimized>>
  /\ OptUntouched
  /\ ConvFrame

\* initialize() resolves in convert: the command is created and started, or
\* convert throws and the catch of executeConversion runs.
CInitialized(ready) ==
  /\ cPc = "init"
  /\ IF ready
     THEN /\ cReady' = TRUE
          /\ cCommand' = "running"
          /\ cPc' = "running"
          /\ UNCHANGED <<cError, oFiles>>
     ELSE /\ Fail(MsgNotReady, oFiles)
          /\ UNCHANGED <<cReady, cCommand>>
  /\ NoProgress
  /\ UNCHANGED <<cToken, cListener, cLevel, cOptimized>>
  /\ OptUntouched
  /\ ConvFrame

\* A 'progress' event of the running command: FFmpeg is writing the output;
\* a percent that is not 0 goes through the cap of convert and through
\* progressCallback to updateProgress.
CProgress(percent) ==
  /\ cPc = "running"
  /\ cCommand = "running"
  /\ oFiles' = [oFiles EXCEPT ![OutPath] = "partial"]
  /\ IF percent # 0
     THEN UpdateProgress(mapped(adjustedPercent(percent)))
     ELSE NoProgress
  /\ UNCHANGED <<cPc, cToken, cListener, cCommand, cReady, cLevel, cError,
                 cOptimized>>
  /\ OptUntouched
  /\ ConvFrame

\* The 'end' event: convert resolves, checkGifsicle is awaited.
CEnd ==
  /\ cPc = "running"
  /\ cCommand = "running"
  /\ cCommand' = "ended"
  /\ oFiles' = [oFiles EXCEPT ![OutPath] = "gif"]
  /\ cPc' = "check"
  /\ NoProgress
  /\ UNCHANGED <<cToken, cListener, cReady, cLevel, cError, cOptimized>>
  /\ OptUntouched
  /\ ConvFrame

\* An 'error' event that FFmpeg raises by itself: convert rejects with it.
CError ==
  /\ cPc = "running"
  /\ cCommand = "running"
  /\ cCommand' = "ended"
  /\ Fail("ffmpeg exited with code 1", oFiles)
  /\ NoProgress
  /\ UNCHANGED <<cToken, cListener, cReady, cLevel, cOptimized>>
  /\ OptUntouched
  /\ ConvFrame

\* The 'error' event of a killed command ('ffmpeg was killed with signal
\* SIGTERM'): convert rejects with 'Conversion cancelled by user'.
CKilled ==
  /\ cPc = "running"
  /\ cCommand = "killed"
  /\ cCommand' = "ended"
  /\ Fail(MsgCancelled, oFiles)
  /\ NoProgress
  /\ UNCHANGED <<cToken, cListener, cReady, cLevel, cOptimized>>
  /\ OptUntouched
  /\ ConvFrame

\* converter.cancel(): currentCommand.kill('SIGTERM') if a command is set;
\* the signal reaches a process only if that command is running.
cancel(command) == IF command = "running" THEN "killed" ELSE command

\* The user cancels while the task runs and the listener is registered: the
\* token fires once and the listener calls converter.cancel().
CCancel ==
  /\ cPc \in {"init", "running", "check", "optimizing", "stats", "message"}
  /\ cListener
  /\ ~cToken
  /\ cToken' = TRUE
  /\ cCommand' = cancel(cCommand)
  /\ NoProgress
  /\ UNCHANGED <<cPc, cListener, cReady, cLevel, cError, cOptimized, oFiles>>
  /\ OptUntouched
  /\ ConvFrame

\* checkGifsicle resolves: with gifsicle and a level other than 'fast',
\* updateProgress(95, ...) and optimize is awaited.
CCheckGifsicle(setting, exists, probeOk) ==
  /\ cPc = "check"
  /\ CheckCall(setting, exists, probeOk)
  /\ IF oOk' = "true" /\ cLevel # "fast"
     THEN /\ UpdateProgress(950)
          /\ cPc' = "optimizing"
     ELSE /\ NoProgress
          /\ cPc' = "stats"
  /\ UNCHANGED <<cToken, cListener, cCommand, cReady, cLevel, cError,
                 cOptimized, oFiles>>
  /\ ConvFrame

\* optimize resolves or throws; a returned path that differs from the output
\* path and exists replaces the output: unlinkSync(outputPath), then
\* renameSync(optimizedPath, outputPath), which can fail (another volume).
COptimize(setting, exists, probeOk, runOk, renameOk) ==
  /\ cPc = "optimizing"
  /\ OptimizeCall(OutPath, setting, exists, probeOk, runOk)
  /\ cOptimized' = TRUE
  /\ LET files == afterRun(oFiles, oWritten')
     IN  IF oThrown' # "none"
         THEN Fail(oThrown', files)
         ELSE IF oReturn' # OutPath /\ files[oReturn'] # "absent"
              THEN IF renameOk
                   THEN /\ oFiles' = [files EXCEPT ![OutPath] = files[oReturn'],
                                                   ![oReturn'] = "absent"]
                        /\ cPc' = "stats"
                        /\ UNCHANGED cError
                   ELSE Fail("EXDEV: cross-device link not permitted", files)
              ELSE /\ oFiles' = files
                   /\ cPc' = "stats"
                   /\ UNCHANGED cError
  /\ NoProgress
  /\ UNCHANGED <<cToken, cListener, cCommand, cReady, cLevel>>
  /\ ConvFrame

\* statSync(outputPath), getFfmpegVersion(), updateProgress(100, 'Done!'),
\* and the message with its actions is shown.
CStats ==
  /\ cPc = "stats"
  /\ IF oFiles[OutPath] = "absent"
     THEN /\ Fail("ENOENT: no such file or directory", oFiles)
          /\ NoProgress
     ELSE /\ UpdateProgress(1000)
          /\ cPc' = "message"
          /\ UNCHANGED <<cError, oFiles>>
  /\ UNCHANGED <<cToken, cListener, cCommand, cReady, cLevel, cOptimized>>
  /\ OptUntouched
  /\ ConvFrame

\* The message and the action chosen resolve, or one of them rejects, which
\* the same catch handles.
CFinish(ok) ==
  /\ cPc = "message"
  /\ IF ok
     THEN /\ cPc' = "done"
          /\ UNCHANGED <<cError, oFiles>>
     ELSE Fail("action failed", oFiles)
  /\ NoProgress
  /\ UNCHANGED <<cToken, cListener, cCommand, cReady, cLevel, cOptimized>>
  /\ OptUntouched
  /\ ConvFrame

ConvNext ==
  \/ CCall
  \/ \E found \in BOOLEAN : CLocated(found)
  \/ \E ready \in BOOLEAN : CInitialized(ready)
  \/ \E percent \in FfPercents : CProgress(percent)
  \/ CEnd
  \/ CError
  \/ CKilled
  \/ CCancel
  \/ \E setting \in Settings, exists \in BOOLEAN, probeOk \in BOOLEAN :
       CCheckGifsicle(setting, exists, probeOk)
  \/ \E setting \in Settings, exists \in BOOLEAN, probeOk \in BOOLEAN,
        runOk \in BOOLEAN, renameOk \in BOOLEAN :
       COptimize(setting, exists, probeOk, runOk, renameOk)
  \/ CStats
  \/ \E ok \in BOOLEAN : CFinish(ok)

SpecConvert == ConvInit /\ [][ConvNext]_vars

\* ------------------------------------------------------------------ claims
DirectStepNames == {"download", "extract", "chmod", "verify", "record"}
IsDirectStep(s) == s \in DirectStepNames
DirectSteps == SelectSeq(steps, IsDirectStep)
IsPrefix(s, t) == Len(s) <= Len(t) /\ s = SubSeq(t, 1, Len(s))
Occurs(s) == \E i \in 1..Len(steps) : steps[i] = s
HostIsAppleSilicon == platform = "darwin" /\ arch = ArchArm64
Resolved == resolveBinary(platform, arch) # <<>>

\* C1: a call of installFfmpeg made while the flag is set returns false at
\* once with the busy result, and leaves the manager, the file system, the
\* flag and every pending call exactly as they were, so the pending attempt
\* proceeds as if the call had not been made.
C1_SingleFlight ==
  [][\A c \in Callers, f \in BOOLEAN :
       (isDownloading /\ Call(c, f)) =>
         /\ last' = [ok |-> FALSE, at |-> "busy", errors |-> 0,
                     message |-> "none"]
         /\ UNCHANGED <<envVars, mgrVars, fsVars, brewVars, pc, errors,
                        dlVars, obsVars>>]_vars

C1_Witness ==
  /\ isDownloading
  /\ last.at = "busy"
  /\ \E c \in Callers : pc[c] = "dl_stream"

\* C2: the flag is set exactly while one attempt is pending: never two
\* attempts at once, and after any exit (success, a failing step, a rejected
\* prompt or progress wrapper) the flag is false again.
C2_FlagReleased ==
  /\ Cardinality({c \in Callers : InFlight(c)}) <= 1
  /\ isDownloading <=> (\E c \in Callers : InFlight(c))

C2_Witness ==
  /\ ~isDownloading
  /\ last.at = "catch"
  /\ last.message \in ExtractMessages

\* C3: a step of an install attempt changes the cached path only if it is
\* the step in which the attempt returns true; a call that returns false
\* leaves ffmpegPath as it found it.
C3_PathOnlyOnSuccess ==
  [][\A c \in Callers :
       (Resumed(c) /\ ffmpegPath' # ffmpegPath) =>
         (pc'[c] = "idle" /\ last'.ok)]_vars

C3_Witness ==
  /\ last.at = "catch"
  /\ last.message = "version probe"
  /\ ffmpegPath = BundledPath

\* C4: when a forced attempt that found a working, cached executable has
\* failed, the executable in the install directory is still that one and
\* still passes the version probe.
C4_WorkingStatePreserved ==
  (~isDownloading /\ last.at = "catch" /\ prior # "none") =>
    (execFile = prior /\ Runs(execFile, execBit))

\* A forced attempt over a working, cached executable has failed at the
\* version probe and the executable on disk is the one it extracted.
C4_Witness ==
  /\ ~isDownloading
  /\ last.at = "catch"
  /\ last.message = "version probe"
  /\ prior = "old"
  /\ ffmpegPath = BundledPath
  /\ execFile = "broken"

\* C5: when an attempt has ended in a failing step, it returned false, an
\* error was reported, and the temporary archive no longer exists.
C5_FailureCleansArchive ==
  (~isDownloading /\ last.at = "catch") =>
    (~last.ok /\ last.errors >= 1 /\ archive = "absent")

\* An attempt has failed in extraction and the downloaded archive is still
\* in the storage directory.
C5_Witness ==
  /\ ~isDownloading
  /\ last.at = "catch"
  /\ last.message \in ExtractMessages
  /\ last.errors = 1
  /\ archive = "complete"

\* C6 as stated: whenever the target executable exists, every call of
\* installFfmpeg(false) returns true and sets no flag, runs no alternate
\* path, and does no download, extraction or verification.
C6_AlwaysTrueWhenInstalled ==
  [][\A c \in Callers :
       (Resolved /\ existingBinaryExists /\ Call(c, FALSE)) =>
         /\ last'.ok
         /\ UNCHANGED <<envVars, mgrVars, fsVars, brewVars, pc, errors,
                        dlVars, obsVars>>]_vars

\* C6, amended: whenever the target executable exists and no attempt is in
\* flight, every call of installFfmpeg(false) returns true with the
\* already-installed result and leaves the flag, the cached path, the file
\* system and every caller as they were.
C6_IdempotentWhenIdle ==
  [][\A c \in Callers :
       (Resolved /\ existingBinaryExists /\ ~isDownloading /\ Call(c, FALSE)) =>
         /\ last' = [ok |-> TRUE, at |-> "already", errors |-> 0,
                     message |-> "none"]
         /\ UNCHANGED <<envVars, mgrVars, fsVars, brewVars, pc, errors,
                        dlVars, obsVars>>]_vars

C6_Witness ==
  /\ last.at = "already"
  /\ last.ok
  /\ ~isDownloading
  /\ existingBinaryExists

\* C7: the direct-path steps an attempt has completed are always an initial
\* part of download, extract, chmod (not on win32), verify, record; a step
\* is awaited only when exactly the steps before it have completed.
ExpectedSteps ==
  IF platform = "win32"
  THEN <<"download", "extract", "verify", "record">>
  ELSE <<"download", "extract", "chmod", "verify", "record">>

C7_StepOrder ==
  /\ IsPrefix(DirectSteps, ExpectedSteps)
  /\ \A c \in Callers :
       /\ pc[c] = "extract" => DirectSteps = <<"download">>
       /\ pc[c] = "chmod" => DirectSteps = <<"download", "extract">>
       /\ pc[c] = "verify" => Len(DirectSteps) = Len(ExpectedSteps) - 2
  /\ Occurs("record") => ~isDownloading

C7_Witness ==
  /\ DirectSteps = <<"download", "extract", "chmod", "verify", "record">>
  /\ ffmpegPath = BundledPath

\* C8: an attempt begins with the alternate path exactly on darwin/arm64;
\* once the alternate path has returned true the attempt is over and no
\* direct-path step was run; once it has returned false the next thing is
\* the download of the catalog descriptor's URL.
C8_AlternatePathFirst ==
  /\ \A c \in Callers :
       InFlight(c) /\ pc[c] # "progress" =>
         (HostIsAppleSilicon <=> (steps # <<>> /\ steps[1] = "alt"))
  /\ ~HostIsAppleSilicon => ~Occurs("alt") /\ ~Occurs("altTrue") /\ ~Occurs("altFalse")
  /\ HostIsAppleSilicon /\ DirectSteps # <<>> => Occurs("altFalse")
  /\ Occurs("altTrue") =>
       /\ DirectSteps = <<>>
       /\ ~Occurs("altFalse")
       /\ ~isDownloading
       /\ ffmpegPath # NullPath
  /\ \A c \in Callers :
       (target[c] = "catalog" /\ pc[c] \in {"dl_req", "dl_wait", "dl_stream"}) =>
         /\ url[c] = (IF redirects[c] = 0 THEN binaryInfo.url ELSE RedirectUrl)
         /\ HostIsAppleSilicon => steps[Len(steps)] = "altFalse"

C8_Witness ==
  /\ HostIsAppleSilicon
  /\ Occurs("altFalse")
  /\ DirectSteps = <<"download", "extract", "chmod", "verify", "record">>

\* C9 as stated: a pair in the catalog resolves to a descriptor with a
\* non-empty URL and executable name, and every pair absent from the catalog
\* resolves to the unsupported result.
C9_AbsentIsUnsupported ==
  /\ InCatalog(platform, arch) =>
       /\ Resolved
       /\ binaryInfo.url # ""
       /\ binaryInfo.executableName # ""
  /\ ~InCatalog(platform, arch) => ~Resolved

\* C9, amended: a pair in the catalog resolves to its own descriptor, with a
\* non-empty URL and executable name; a pair absent from the catalog resolves
\* to the unsupported result unless the architecture is an ARM variant and
\* the platform has an arm64 entry; and when the result is unsupported, a
\* call of installFfmpeg returns false after one error message, with the
\* flag, the cached path, the file system and every caller untouched.
C9_Resolution ==
  /\ [](/\ InCatalog(platform, arch) =>
             /\ resolveBinary(platform, arch) = lookup(platform, arch)
             /\ binaryInfo.url # ""
             /\ binaryInfo.executableName # ""
        /\ (/\ ~InCatalog(platform, arch)
            /\ ~(startsWith(arch, PrefixArm) /\ InCatalog(platform, ArchArm64)))
             => ~Resolved)
  /\ [][\A c \in Callers, f \in BOOLEAN :
          (~Resolved /\ Call(c, f)) =>
            /\ last' = [ok |-> FALSE, at |-> "unsupported", errors |-> 1,
                        message |-> "Unsupported platform"]
            /\ UNCHANGED <<envVars, mgrVars, fsVars, brewVars, pc, errors,
                           dlVars, obsVars>>]_vars

C9_Witness ==
  /\ ~InCatalog(platform, arch)
  /\ last.at = "unsupported"
  /\ ~isDownloading

\* C10: an ARM variant without an entry of its own resolves to the platform's
\* arm64 descriptor when there is one and to unsupported when there is none;
\* any other architecture without an entry resolves to unsupported.
C10_ArmFallback ==
  ~InCatalog(platform, arch) =>
    IF startsWith(arch, PrefixArm)
    THEN resolveBinary(platform, arch) = lookup(platform, ArchArm64)
    ELSE ~Resolved

C10_Witness ==
  /\ platform = "linux"
  /\ arch = ArchArm
  /\ \E c \in Callers : url[c] = downloadUrls["linux"][ArchArm64].url
  /\ \E c \in Callers : pc[c] = "dl_stream"

\* C11: every call of update passes a value at least as large as the one
\* before, the download never passes the same value twice in a row, and the
\* progress shown never decreases and stays within 0..100.
C11_ProgressMonotone ==
  [][updCalls' # updCalls =>
       /\ updArg' >= updArg
       /\ uiLastPercent' >= uiLastPercent
       /\ uiLastPercent' \in 0..100
       /\ (pgPhase \in {"osx_stream", "stream"} /\ updCalls > 0) =>
            updArg' # updArg]_vars

\* The catalog download has advanced to 64 percent of its 80 and the
\* progress shown stands at 16.
C11_Witness ==
  /\ pgPhase = "stream"
  /\ dlLastPercent = 64
  /\ uiLastPercent = 16
  /\ updCalls >= 2

DestOf(c) == IF target[c] = "osx" THEN osxArchive ELSE archive

\* C13 as stated: a response that is neither 200 nor a followed redirect
\* makes the download fail with 'HTTP <code>', streams nothing to the
\* destination, and the install attempt returns false.
C13_HttpErrorEndsAttempt ==
  [][\A c \in Callers, code \in StatusCodes :
       DlHttpError(c, code) =>
         /\ UNCHANGED <<archive, osxArchive>>
         /\ DestOf(c) # "complete"
         /\ pc'[c] = "idle"
         /\ ~last'.ok
         /\ last'.message = httpError(code)]_vars

\* C13, amended: such a response makes the download fail with 'HTTP <code>'
\* and streams nothing to the destination; when it answers the direct-path
\* download the install attempt returns false with that message reported,
\* and when it answers the fallback download of the alternate path the
\* alternate path returns false and the direct-path download is started.
C13_HttpErrorFails ==
  [][\A c \in Callers, code \in StatusCodes :
       DlHttpError(c, code) =>
         /\ UNCHANGED <<archive, osxArchive>>
         /\ DestOf(c) # "complete"
         /\ target[c] = "catalog" =>
              /\ pc'[c] = "idle"
              /\ last' = [ok |-> FALSE, at |-> "catch",
                          errors |-> errors[c] + 1,
                          message |-> httpError(code)]
              /\ ~isDownloading'
         /\ target[c] = "osx" =>
              /\ pc'[c] = "dl_req"
              /\ target'[c] = "catalog"
              /\ url'[c] = binaryInfo.url
              /\ steps' = Append(steps, "altFalse")
              /\ UNCHANGED <<last, errors, mgrVars>>]_vars

C13_Witness ==
  /\ last.at = "catch"
  /\ last.message = "HTTP 404"
  /\ archive = "partial"
  /\ ~isDownloading

C15_LateCancelIsInert ==
  [][(token' /\ ~token /\ ePc \in {"extracting", "chmod", "verify"}) =>
       UNCHANGED <<ePc, eDest, eExec, eResult, eError>>]_vars

C15_Witness ==
  /\ token
  /\ ePc = "extracting"
  /\ eDest = "absent"
  /\ eRequest = "done"

\* C16: an attempt cancelled during its download ends with an outcome that
\* is not the generic failure, and no error message is shown for it.
C16_CanceledIsDistinct ==
  (ePc = "returned" /\ token /\ eRequest = "destroyed") =>
     (eResult # "false" /\ eError = "none")

C16_Witness ==
  /\ ePc = "returned"
  /\ token
  /\ eRequest = "destroyed"
  /\ eResult = "false"
  /\ eError = "Canceled"

AltStates ==
  {"alt_probe", "brew_list", "prompt_ffmpeg", "brew_install", "prompt_brew",
   "consent", "brew_script", "osx_verify", "osx_confirm", "osx_extract",
   "osx_activate", "osx_probe"}

InAlt(c) ==
  \/ pc[c] \in AltStates
  \/ pc[c] \in {"dl_req", "dl_wait", "dl_stream"} /\ target[c] = "osx"

\* C19: no exception raised inside the alternate-path flow reaches
\* installFfmpeg's own handler: from a state inside the flow the attempt
\* never goes to the catch block; it leaves the flow with true or with false
\* followed by the direct download.
C19_AltCatchesEverything ==
  [][\A c \in Callers : InAlt(c) => last'.at # "catch"]_vars

C19_Witness ==
  /\ steps = <<"alt">>
  /\ last.at = "catch"
  /\ last.message = "prompt"
  /\ ~last.ok

\* C20: the remote installation script is started only by the answer
\* 'Install' to the warning, which is shown only after the answer 'Install
\* Homebrew' to the first prompt; no other answer starts it; `brew install
\* ffmpeg` is started only by the answer 'Install now' or by the success of
\* the script.
C20_ScriptNeedsTwoConsents ==
  [][\A c \in Callers :
       /\ (pc'[c] = "brew_script" /\ pc[c] # "brew_script") =>
            pc[c] = "consent"
       /\ (pc'[c] = "consent" /\ pc[c] # "consent") => pc[c] = "prompt_brew"
       /\ \A ch \in {"Download Apple Silicon binary", "Cancel", "undefined"} :
            PromptBrew(c, ch) => pc'[c] \notin {"consent", "brew_script"}
       /\ \A ch \in {"Cancel", "undefined"} :
            Consent(c, ch) => pc'[c] \notin {"brew_script", "brew_install"}
       /\ (pc'[c] = "brew_install" /\ pc[c] # "brew_install") =>
            pc[c] \in {"prompt_ffmpeg", "brew_script"}
       /\ \A ch \in {"Cancel", "undefined"} :
            PromptFfmpeg(c, ch) => pc'[c] # "brew_install"
       /\ BrewScript(c, FALSE) => pc'[c] # "brew_install"
       /\ PromptRejects(c) =>
            pc'[c] \notin {"consent", "brew_script", "brew_install"}]_vars

C20_Witness ==
  \E c \in Callers :
    /\ pc[c] = "brew_script"
    /\ ~brewAvail
    /\ steps = <<"alt">>

\* C21: without Homebrew, the answer 'Cancel' or a dismissed prompt makes the
\* alternate path return false with no download of the osxexperts archive,
\* and the direct download of the catalog archive follows; the answer
\* 'Download Apple Silicon binary' starts the fallback download at once, and
\* no Homebrew prompt follows it.
C21_CancelSkipsFallback ==
  /\ [][\A c \in Callers :
          /\ \A ch \in {"Cancel", "undefined"} :
               PromptBrew(c, ch) =>
                 /\ pc'[c] = "dl_req"
                 /\ target'[c] = "catalog"
                 /\ url'[c] = binaryInfo.url
                 /\ steps' = <<"alt", "altFalse">>
                 /\ UNCHANGED osxArchive
          /\ PromptBrew(c, "Download Apple Silicon binary") =>
               /\ pc'[c] = "dl_req"
               /\ target'[c] = "osx"
               /\ url'[c] = OsxUrl
               /\ steps' = <<"alt">>]_vars
  /\ [](\A c \in Callers :
          /\ target[c] = "osx" =>
               pc[c] \notin {"prompt_brew", "consent", "prompt_ffmpeg"}
          /\ Occurs("altFalse") => target[c] # "osx")

C21_Witness ==
  \E c \in Callers :
    /\ ~brewAvail
    /\ steps = <<"alt", "altFalse">>
    /\ osxArchive = "absent"
    /\ target[c] = "catalog"
    /\ pc[c] = "dl_stream"

\* C22 as stated: with Homebrew callable and ffmpeg registered as installed,
\* the alternate path always ends the attempt with true and the path found
\* by `which`, without a prompt.
C22_InstalledMeansAdopted ==
  [][\A c \in Callers :
       (pc[c] = "brew_list" /\ brewHasFfmpeg) =>
          /\ pc'[c] = "idle"
          /\ last'.ok
          /\ ffmpegPath' \in {WhichPath, "ffmpeg"}]_vars

\* C22: when `brew list ffmpeg` and `which ffmpeg` both succeed, the path
\* printed by `which` (the bare command name if it printed nothing) becomes
\* the cached path and the attempt returns true with no prompt, download or
\* extraction; when ffmpeg is registered but `which` fails, the user is asked
\* whether to install it.
C22_ListAndWhichAdopt ==
  [][\A c \in Callers :
       /\ \A p \in {WhichPath, "ffmpeg"} :
            BrewListHit(c, p) =>
              /\ brewHasFfmpeg
              /\ ffmpegPath' = p
              /\ ~isDownloading'
              /\ pc'[c] = "idle"
              /\ last' = [ok |-> TRUE, at |-> "installed", errors |-> 0,
                          message |-> "none"]
              /\ steps' = <<"alt", "altTrue">>
              /\ UNCHANGED <<fsVars, brewVars>>
       /\ (pc[c] = "brew_list" /\ pc'[c] # "brew_list") =>
            \/ pc'[c] = "idle" /\ last'.ok
            \/ pc'[c] = "prompt_ffmpeg" /\ UNCHANGED <<mgrVars, fsVars>>]_vars

C22_Witness ==
  /\ steps = <<"alt", "altTrue">>
  /\ last.ok
  /\ last.at = "installed"
  /\ brewHasFfmpeg
  /\ ffmpegPath = WhichPath
  /\ archive = "absent"
  /\ osxArchive = "absent"

\* The probes getFfmpegPath itself ran, without the one getVersion adds.
lookupProbes == SelectSeq(lProbes, LAMBDA x : x # "version")

\* C23: getFfmpegPath returns the cached path, unprobed, if it exists on
\* disk; otherwise the bundled executable if it exists and its probe
\* succeeds, a failing probe sending the lookup on; otherwise the absolute
\* system path if its probe succeeds; otherwise the bare command name if the
\* bare command answers with a version; otherwise null.  Each hit ends the
\* lookup.
C23_LocatorPriority ==
  /\ [][/\ \A op \in {"path", "version"}, exists \in BOOLEAN :
             LocCall(op, exists) =>
               IF ffmpegPath # NullPath /\ cachedExists(exists)
               THEN lFound' = ffmpegPath /\ lProbes' = <<>>
               ELSE lFound' = "none" /\ lPc' \in {"probe_bundled", "resolve"}
        /\ LocProbeBundled =>
             IF Runs(execFile, execBit)
             THEN lFound' = BundledPath /\ lPc' \in {"idle", "version_probe"}
             ELSE lFound' = "none" /\ lPc' = "resolve"
        /\ \A answer \in SystemAnswers :
             LocResolve(answer) =>
               IF answer = "good"
               THEN lFound' = SystemPath /\ lPc' \in {"idle", "version_probe"}
               ELSE lFound' = "none" /\ lPc' = "bare"
        /\ \A ok \in BOOLEAN, out \in Stdouts :
             LocBare(ok, out) =>
               lFound' = (IF ok /\ includesVersion(out) THEN "ffmpeg"
                          ELSE NullPath)]_vars
  /\ [](/\ (lFound = BundledPath /\ lookupProbes # <<>>) =>
             (lookupProbes = <<"bundled">> /\ Runs(execFile, execBit))
        /\ (lFound = SystemPath /\ lookupProbes # <<>>) =>
             /\ lookupProbes \in {<<"system">>, <<"bundled", "system">>}
             /\ ~(lStorage /\ Runs(execFile, execBit))
        /\ (lFound \in {"ffmpeg", NullPath} /\ lookupProbes # <<>>) =>
             /\ lookupProbes[Len(lookupProbes)] = "bare"
             /\ ~(lStorage /\ Runs(execFile, execBit))
        /\ lFound = NullPath => lookupProbes # <<>>)

C23_Witness ==
  /\ lPc = "idle"
  /\ lOp = "path"
  /\ execFile = "broken"
  /\ lProbes = <<"bundled", "system">>
  /\ lFound = SystemPath

\* C24 as stated: no step of getFfmpegPath changes the cached path, the
\* in-progress flag or the file system.
C24_LocateChangesNothing ==
  [][lProbes' # lProbes => UNCHANGED <<mgrVars, fsVars>>]_vars

\* C24: getFfmpegPath leaves the in-progress flag and the file system
\* unchanged; a hit on the cached path and a lookup that finds nothing leave
\* the cached path unchanged, and a hit on the bundled, the system or the
\* bare path stores the returned path as the cached path.
C24_LocateCachesHit ==
  [][/\ UNCHANGED <<isDownloading, fsVars>>
     /\ ffmpegPath' = (IF lFound = "none" /\ lFound' \notin {"none", NullPath}
                       THEN lFound' ELSE ffmpegPath)]_vars

C24_Witness ==
  /\ lProbes = <<"bundled">>
  /\ lFound = BundledPath
  /\ ffmpegPath = BundledPath
  /\ ~isDownloading

\* C26: getVersion returns 'Not installed' exactly when the lookup found
\* nothing; otherwise the token that follows 'ffmpeg version' in the output
\* of the probe, 'Unknown' when the probe ran and printed no such token, and
\* 'Error' when the probe could not be executed.  Every call returns one of
\* these.
C26_VersionResults ==
  /\ [][\A ok \in BOOLEAN, out \in Stdouts :
          LocVersion(ok, out) =>
            /\ ~ok => lResult' = "Error"
            /\ (ok /\ out = BannerOld) => lResult' = "6.1"
            /\ (ok /\ out = BannerNew) => lResult' = "7.1"
            /\ (ok /\ out \notin {BannerOld, BannerNew}) =>
                 lResult' = "Unknown"
            /\ lPc' = "idle"]_vars
  /\ []((lOp = "version" /\ lPc = "idle") =>
          /\ lResult \in {"Not installed", "Unknown", "Error", "6.1", "7.1"}
          /\ lResult = "Not installed" <=> lFound = NullPath
          /\ lResult # "Not installed" =>
               lProbes[Len(lProbes)] = "version")

C26_Witness ==
  /\ lOp = "version"
  /\ lPc = "idle"
  /\ lResult = "Unknown"
  /\ lFound = "ffmpeg"
  /\ lProbes = <<"bare", "version">>

\* The attempt that last set the flag went through the direct path and
\* returned true, and no attempt has started since.
DirectSuccess ==
  /\ last.ok
  /\ last.at = "installed"
  /\ Len(steps) >= 2
  /\ steps[Len(steps)] = "record"
  /\ steps[Len(steps) - 1] = "verify"

\* C25: after a successful install through the direct path, the executable
\* of the install directory exists and runs, has its permission bits set off
\* Windows, was probed in that attempt, is the cached path, and getVersion
\* called afterwards returns the version token it prints.
C25_DirectSuccessState ==
  DirectSuccess =>
    /\ execFile \in Working
    /\ platform # "win32" => execBit
    /\ Occurs("extract")
    /\ platform # "win32" => Occurs("chmod")
    /\ ffmpegPath = BundledPath
    /\ ~isDownloading
    /\ (lOp = "version" /\ lPc = "idle") =>
         /\ lFound = BundledPath
         /\ lProbes = <<"version">>
         /\ lResult = banner(execFile)[3]

C25_Witness ==
  /\ DirectSuccess
  /\ platform = "linux"
  /\ execFile = "new"
  /\ lOp = "version"
  /\ lPc = "idle"
  /\ lResult = "7.1"

\* The files of the install directory.
installDir == <<execFile, execBit, nestedFile>>

C30_ExtractDispatch ==
  xPc = "done" =>
    /\ endsWith(xArchive, SuffixZip) =>
         /\ xCommand = (IF xPlatform = "win32" THEN "powershell" ELSE "unzip")
         /\ ~xStrip
         /\ xKind # "ok" =>
              xThrown = render([text |-> IF xPlatform = "win32"
                                         THEN MsgPowerShell ELSE MsgUnzip,
                                cause |-> underlying(xKind)])
    /\ endsWith(xArchive, SuffixTarXz) =>
         /\ xCommand = "tar"
         /\ xStrip
         /\ xKind # "ok" =>
              xThrown = render([text |-> MsgTar, cause |-> underlying(xKind)])
    /\ xKind = "ok" => xThrown = "none"

C30_Witness ==
  /\ xPc = "done"
  /\ xArchive = FileTarXz
  /\ xPlatform = "darwin"
  /\ xKind = "toolMissing"
  /\ xCommand = "tar"
  /\ xThrown = render([text |-> MsgTar, cause |-> "command not found"])

\* C28: a call of installFfmpeg issues at most one error notification,
\* whatever steps fail in it.
C28_OneErrorPerCall ==
  /\ last.errors <= 1
  /\ \A c \in Callers : errors[c] <= 1

C28_Witness ==
  /\ last.at = "catch"
  /\ last.errors = 2
  /\ last.message = "HTTP 404"
  /\ brewAvail
  /\ ~brewHasFfmpeg
  /\ ~isDownloading

\* The attempt that last set the flag returned true from the osxexperts
\* fallback, and no attempt has started since.
FallbackSuccess ==
  /\ last.ok
  /\ last.at = "installed"
  /\ steps[Len(steps)] = "altTrue"
  /\ ffmpegPath = BundledPath

\* C29: after a successful install through the direct path the catalog
\* archive is gone, and after a successful install through the osxexperts
\* fallback the scratch archive is gone.
C29_ArchiveGoneOnSuccess ==
  /\ DirectSuccess => archive = "absent"
  /\ FallbackSuccess => osxArchive = "absent"

C29_Witness ==
  /\ FallbackSuccess
  /\ osxArchive = "complete"
  /\ archive = "absent"
  /\ execFile = "new"
  /\ ~isDownloading

C36_DeclineStartsNoFallback ==
  [][\A c \in Callers : \A ch \in {"Cancel", "undefined"} :
       /\ (pc[c] = "prompt_ffmpeg" /\ PromptFfmpeg(c, ch))
          => ~(target'[c] = "osx" /\ url'[c] = OsxUrl)
       /\ (pc[c] = "consent" /\ Consent(c, ch))
          => ~(target'[c] = "osx" /\ url'[c] = OsxUrl)]_vars

\* Homebrew is callable, ffmpeg is not installed with it, no error was
\* notified (so `brew install ffmpeg` did not fail: the prompt was declined)
\* and the request for the osxexperts archive is under way.
C36_Witness ==
  \E c \in Callers :
    /\ brewAvail
    /\ ~brewHasFfmpeg
    /\ steps = <<"alt">>
    /\ errors[c] = 0
    /\ pc[c] = "dl_req"
    /\ target[c] = "osx"
    /\ url[c] = OsxUrl

\* ---------------------------------------------------------------------
\* C34: every install attempt eventually terminates and releases the
\* single-flight guard: whatever the server and the streams deliver, a
\* pending installFfmpeg call eventually returns, and isDownloading
\* eventually becomes false again.
C34_AttemptTerminates ==
  /\ \A c \in Callers : InFlight(c) ~> ~InFlight(c)
  /\ isDownloading ~> ~isDownloading

\* The response stream has failed in mid-transfer: the download promise is
\* pending, the call has not returned and the guard is held.
C34_Witness ==
  \E c \in Callers :
    /\ pc[c] = "stalled"
    /\ isDownloading
    /\ DestOf(c) = "partial"

\* ---------------------------------------------------------------------
\* C35: a successful install implies a usable executable: when the last
\* installFfmpeg call returned true and getFfmpegPath, then the version
\* probe, have run after it, the path found is not null and the probe has
\* succeeded.
C35_SuccessMeansUsable ==
  (last.ok /\ lOp = "version" /\ lPc = "idle")
  => /\ lFound # NullPath
     /\ lResult \notin {"Error", "Not installed"}

\* installFfmpeg() has returned true through the already-installed early
\* return over an executable that does not run; the lookup that followed has
\* probed it, found nothing else and answered null.
C35_Witness ==
  /\ last.ok
  /\ last.at = "already"
  /\ execFile = "broken"
  /\ ffmpegPath = NullPath
  /\ lOp = "version"
  /\ lPc = "idle"
  /\ lFound = NullPath
  /\ lResult = "Not installed"
  /\ lProbes = <<"bundled", "bare">>

\* ---------------------------------------------------------------------
\* C40 (as stated): after every sequence of update calls, the sum of the
\* increments passed to the host is the last percent clamped to 0..100, and
\* each increment passed to the host is at least 0.
C40_ShownBoundedNoNegative ==
  [][updCalls' # updCalls =>
       /\ uiShown' = clamp(updArg')
       /\ uiShown' \in 0..100
       /\ uiIncrement' >= 0]_vars

\* C40 (amended): after every sequence of update calls, the sum of the
\* increments passed to the host is the last percent clamped to 0..100; the
\* increment of a call is the clamped percent minus the clamped percent of the
\* call before (0 before the first call), so it is negative exactly when the
\* clamped percent is below the one before.
C40_ShownIsLastClamped ==
  [][updCalls' # updCalls =>
       /\ uiShown' = (IF updArg' < 0 THEN 0
                      ELSE IF updArg' > 100 THEN 100 ELSE updArg')
       /\ uiShown' \in 0..100
       /\ uiLastPercent' = uiShown'
       /\ uiIncrement' = uiShown' - uiShown
       /\ (uiIncrement' < 0) = (uiShown' < uiShown)]_vars

\* update(80), then update(150): the second call has reported 20 and the
\* progress shown is 100.
C40_Witness ==
  /\ pgPhase = "task"
  /\ updCalls = 2
  /\ updArg = 150
  /\ uiIncrement = 20
  /\ uiShown = 100

\* ---------------------------------------------------------------------
\* C33: checkGifsicle prefers the configured path: when the setting is not
\* empty and the file exists it returns true, records the configured path and
\* runs no probe; otherwise it runs exactly one `gifsicle --version` probe
\* and returns true with the bare command recorded if the probe succeeds,
\* false if it fails.
C33_ConfiguredPathFirst ==
  [][\A setting \in Settings, exists \in BOOLEAN, probeOk \in BOOLEAN :
       OCheck(setting, exists, probeOk)
       => IF setting # "" /\ exists
          THEN /\ oOk' = "true"
               /\ gifsiclePath' = setting
               /\ oProbes' = 0
          ELSE /\ oProbes' = 1
               /\ oOk' = (IF probeOk THEN "true" ELSE "false")
               /\ probeOk => gifsiclePath' = "gifsicle"]_vars

\* After a call of optimize, a check with the setting pointing at an
\* existing file has recorded the configured path without a probe.
C33_Witness ==
  /\ oOp = "check"
  /\ oOk = "true"
  /\ oProbes = 0
  /\ gifsiclePath = CustomPath
  /\ oNow >= 1

\* ---------------------------------------------------------------------
\* C32: optimize returns a path in the OS temp directory, different from the
\* input path and holding the optimised GIF, when the gifsicle run succeeds;
\* it returns the input path when the run fails; it throws 'Gifsicle not
\* available' only when no gifsicle command could be found (the call ran its
\* probe and has no command); and it never deletes or modifies the input
\* file.
C32_OptimizeResult ==
  [][\A input \in Paths, setting \in Settings, exists \in BOOLEAN,
        probeOk \in BOOLEAN, runOk \in BOOLEAN :
       OOptimize(input, setting, exists, probeOk, runOk)
       => /\ oFiles'[input] = oFiles[input]
          /\ IF oThrown' # "none"
             THEN /\ oThrown' = "Gifsicle not available"
                  /\ gifsiclePath' = NullPath
                  /\ oProbes' = 1
                  /\ ~probeOk
                  /\ ~(setting # "" /\ exists)
                  /\ oRuns' = 0
                  /\ oFiles' = oFiles
             ELSE /\ oRuns' = 1
                  /\ IF runOk
                     THEN /\ oReturn' # input
                          /\ oReturn'.dir = "tmp"
                          /\ oFiles[oReturn'] = "absent"
                          /\ oFiles'[oReturn'] = "optimized"
                     ELSE /\ oReturn' = input
                          /\ oFiles' = oFiles]_vars

\* The file an earlier optimize wrote has been optimised again: the second
\* call has returned a new temp path and both files exist.
C32_Witness ==
  /\ oOp = "optimize"
  /\ oInput = TempPath(1)
  /\ oReturn = TempPath(2)
  /\ oFiles[TempPath(1)] = "optimized"
  /\ oFiles[TempPath(2)] = "optimized"
  /\ oFiles[OutPath] = "gif"

\* ---------------------------------------------------------------------
\* C39: the progress display of a conversion is monotone and bounded: over
\* every sequence of updateProgress calls (preparation, mapped FFmpeg
\* percentages of any value in any order, optimisation, done),
\* displayedPercent never decreases and never exceeds 100, every reported
\* increment is strictly positive, and the sum of the reported increments
\* equals displayedPercent.
C39_DisplayMonotone ==
  [][/\ cDisplayed' >= cDisplayed
     /\ cDisplayed' \in 0..1000
     /\ cShown' = cDisplayed'
     /\ cReported' => /\ cIncrement' > 0
                      /\ cShown' = cShown + cIncrement'
     /\ ~cReported' => cShown' = cShown]_vars

\* FFmpeg has reported 100 percent and then a lower value: the display has
\* kept the 73 percent of the first, and the last increment reported was
\* the step from 5 to 73.
C39_Witness ==
  /\ cPc = "running"
  /\ cDisplayed = 730
  /\ cShown = 730
  /\ cIncrement = 680
  /\ ~cReported
  /\ oFiles[OutPath] = "partial"

\* ---------------------------------------------------------------------
\* C38: the output file of executeConversion: a file already at the output
\* path is removed before the conversion starts; when the conversion or the
\* optimisation step throws, no output file remains and the error is
\* rethrown; optimize is called only when checkGifsicle returned true and
\* the level is not 'fast'; the converted file is replaced by the optimised
\* one only when optimize returned a different path that exists, and is
\* otherwise kept unchanged.
C38_OutputLifecycle ==
  [][/\ (cPc = "locate" /\ cPc' \in {"init", "running"})
        => oFiles'[OutPath] = "absent"
     /\ \A ready \in BOOLEAN :
          (cPc = "init" /\ cPc' = "failed" /\ CInitialized(ready))
          => oFiles'[OutPath] = "absent" /\ cError' = MsgNotReady
     /\ (cPc = "running" /\ cPc' = "failed" /\ (CError \/ CKilled))
        => oFiles'[OutPath] = "absent" /\ cError' # "none"
     /\ \A setting \in Settings, exists \in BOOLEAN, probeOk \in BOOLEAN,
           runOk \in BOOLEAN, renameOk \in BOOLEAN :
          (cPc = "optimizing"
           /\ COptimize(setting, exists, probeOk, runOk, renameOk))
          => /\ cPc' = "failed"
                => oFiles'[OutPath] = "absent" /\ cError' # "none"
             /\ cPc' # "failed"
                => IF oReturn' # OutPath /\ runOk
                   THEN /\ oFiles'[OutPath] = "optimized"
                        /\ oFiles'[oReturn'] = "absent"
                   ELSE /\ oReturn' = OutPath
                        /\ oFiles'[OutPath] = oFiles[OutPath]
     /\ (cPc' = "optimizing" /\ cPc # "optimizing")
        => cPc = "check" /\ oOk' = "true" /\ cLevel # "fast"
     /\ (cPc = "check" /\ cPc' # "check" /\ oOk' = "true" /\ cLevel # "fast")
        => cPc' = "optimizing"
     /\ (cOptimized' /\ ~cOptimized) => cPc = "optimizing"
     /\ (oFiles'[OutPath] = "optimized" /\ oFiles[OutPath] # "optimized")
        => cPc = "optimizing"]_vars

\* A conversion at level 'ultra' has ended with the optimised GIF at the
\* output path and no file left in the temp directory.
C38_Witness ==
  /\ cPc = "done"
  /\ cOptimized
  /\ cLevel = "ultra"
  /\ oReturn = TempPath(1)
  /\ oFiles[OutPath] = "optimized"
  /\ oFiles[TempPath(1)] = "absent"

\* ---------------------------------------------------------------------
\* C37: cancelling a conversion always aborts it: once the cancellation has
\* been requested with the listener registered, the conversion is waiting
\* for FFmpeg's initialisation, or its command has been killed, or it has
\* ended with 'Conversion cancelled by user' (or without FFmpeg) and no
\* output file; it never goes on converting and never completes.
C37_CancelAlwaysAborts ==
  cToken =>
    \/ cPc = "init"
    \/ cPc = "running" /\ cCommand = "killed"
    \/ /\ cPc = "failed"
       /\ cError \in {MsgCancelled, MsgNotReady}
       /\ oFiles[OutPath] = "absent"

\* The cancellation arrived while convert was awaiting initialize(): cancel()
\* found no running command, and the command created afterwards is running
\* and writing the output.
C37_Witness ==
  /\ cToken
  /\ cListener
  /\ cPc = "running"
  /\ cCommand = "running"
  /\ oFiles[OutPath] = "partial"

====
